---- MODULE Spec2Model ----
(***************************************************************************)
(* RoutePlanner (app/services/route_planner.py): plan_route and the        *)
(* helpers it calls, as a state machine that steps through a call, the     *)
(* rendering of its result, and the calls that follow in the same process. *)
(*                                                                         *)
(* Number representation.  The code computes in binary floating point;     *)
(* the model computes in fixed point:                                      *)
(*   - a latitude or longitude is an integer count of 1e-4 degrees         *)
(*     (37.7749 is 377749, -122.4194 is -1224194);                         *)
(*   - a distance in km is an integer count of 1e-6 km (KM units per km),  *)
(*     so round(d, 2) is rounding to a multiple of KM / 100;               *)
(*   - minutes with a fractional part are an integer count of 1e-6 min.    *)
(* _haversine_distance evaluates the code's formula with the small-angle   *)
(* forms sin(x) = x and atan2(sqrt(a), sqrt(1-a)) = sqrt(a), and cos by    *)
(* its first-order expansion at BaseLat; on the coordinates drawn below    *)
(* (all within 0.03 degrees of the base point) it is within 0.3 m of the   *)
(* code's value, rounds to the same 2 decimals and orders every pair of    *)
(* distances as the code does.                                             *)
(***************************************************************************)
EXTENDS Integers, Sequences, FiniteSets, Bags, TLC

VARIABLES
    tasks,               \* argument: the caller's list of task dicts
    start_location,      \* argument: None or a (lat, lng) tuple
    pc,                  \* position inside plan_route
    location_tasks,      \* plan_route local (line 40)
    task_points,         \* plan_route local (line 55)
    idx,                 \* position of the `for task in location_tasks` loop
    current_location,    \* _optimize_route local
    optimized,           \* _optimize_route local: the route built so far
    remaining,           \* _optimize_route local
    result,              \* the returned dict, None before the return
    error,               \* the exception that left plan_route, "" if none
    display,             \* format_route_for_display(result), None before
    hash_seed,           \* the process's str hash randomisation
    first_call,          \* arguments and outcome of the process's first call
    other,               \* the suspended invocation's locals, None if none
    db,                  \* the tasks table: the committed rows
    response,            \* the HTTP response of the last step, None if none
    awaiting,            \* the handlers suspended at an await
    clock                \* the readings of the time taken so far

vars == <<tasks, start_location, pc, location_tasks, task_points, idx,
          current_location, optimized, remaining, result, error, display,
          hash_seed, first_call, other, db, response, awaiting,
                   clock>>

-----------------------------------------------------------------------------
(* Python values.  A dict is a function from its keys; a missing key is a   *)
(* key outside its DOMAIN.                                                  *)

PyNone == [t |-> "none"]
PyNum(n) == [t |-> "num", v |-> n]
PyStr(s) == [t |-> "str", s |-> s]
PyDict(d) == [t |-> "dict", d |-> d]
PyTuple(lat, lng) == [t |-> "tuple", lat |-> lat, lng |-> lng]
PyList(items) == [t |-> "list", items |-> items]

\* bool(v): None, 0, "", {} and [] are false
Truthy(v) ==
    CASE v.t = "none" -> FALSE
      [] v.t = "num" -> v.v # 0
      [] v.t = "str" -> v.s # ""
      [] v.t = "dict" -> DOMAIN v.d # {}
      [] v.t = "list" -> v.items # <<>>
      [] OTHER -> TRUE

\* d.get(key): the value, or None when the key is missing
Get(d, key) == IF key \in DOMAIN d THEN d[key] ELSE PyNone

\* d.get(key, default)
GetOr(d, key, default) == IF key \in DOMAIN d THEN d[key] ELSE default

\* a or b
Or(a, b) == IF Truthy(a) THEN a ELSE b

\* float(v) succeeds on a number; a non-numeric string raises ValueError
FloatRaises(v) == v.t # "num"
float(v) == v.v

-----------------------------------------------------------------------------
(* Units and program constants *)

KM == 10^6                 \* fixed-point units in one km (and in one minute)
Cent == KM \div 100        \* 0.01 km

BaseLat == 377749          \* 37.7749
BaseLng == -1224194        \* -122.4194
HashModulus == 10000
R == 6371                  \* Earth radius in km
SpeedKmh == 40
DefaultDuration == 15
BufferPerStop == 5

\* round(x, 2) of a non-negative value
Round2(x) == ((x + Cent \div 2) \div Cent) * Cent

\* int(x): truncation toward zero of a value in 1e-6 units
int(x) == IF x >= 0 THEN x \div KM ELSE -((-x) \div KM)

-----------------------------------------------------------------------------
(* Pure helpers of RoutePlanner *)

\* hash(location_name).  The hash of a non-empty str is fixed by the
\* process's randomisation and may be negative: hash_seed is the value the
\* process gives the label "Store", the one label the inputs hash.  The hash
\* of "" is 0 and the hash of a small int is the int.
hash(location_name) ==
    CASE location_name = PyStr("Store") -> hash_seed
      [] location_name.t = "num" -> location_name.v
      [] OTHER -> 0

\* variant: the offsets taken from the magnitude of the hash
MockCoordinatesOfMagnitude(location_name) ==
    LET h == hash(location_name)
        hash_val == (IF h < 0 THEN -h ELSE h) % HashModulus
    IN  <<BaseLat + 10 * (hash_val % 100),
          BaseLng + 10 * ((hash_val \div 100) % 100)>>
\* lines 97-108
_generate_mock_coordinates(location_name) ==
    LET hash_val == hash(location_name) % HashModulus
        lat == BaseLat + 10 * (hash_val % 100)
        lng == BaseLng + 10 * ((hash_val \div 100) % 100)
    IN  <<lat, lng>>

\* floor(sqrt(n)) for 0 <= n < 2^31, by bisection
RECURSIVE SqrtBetween(_, _, _)
SqrtBetween(n, lo, hi) ==
    IF lo >= hi THEN lo
    ELSE \* mid is bound over a set, so that it is evaluated once
         CHOOSE root \in { IF mid * mid <= n THEN SqrtBetween(n, mid, hi)
                                             ELSE SqrtBetween(n, lo, mid - 1) :
                           mid \in {(lo + hi + 1) \div 2} } : TRUE
sqrt(n) == SqrtBetween(n, 0, 46340)

\* math.cos(math.radians(lat)) times 10^8: cos(BaseLat) - sin(BaseLat) * delta
cos(lat) == 79042344 - 107 * (lat - BaseLat)

\* variant: the cosine of the first point's latitude taken twice
HaversineCosOfOrigin(point1, point2) ==
    LET delta_lat == point2[1] - point1[1]
        delta_lon == point2[2] - point1[2]
        cos_cos == ((cos(point1[1]) \div 10^4) * (cos(point1[1]) \div 10^4))
                       \div 10^4
        a == delta_lat * delta_lat * 10^4 + cos_cos * delta_lon * delta_lon
    IN  (((R * sqrt(a)) \div 180) * 355) \div 113
\* point1, point2: <<lat, lng>> in 1e-4 degrees; the result in 1e-6 km
_haversine_distance(point1, point2) ==
    LET lat1 == point1[1]
        lon1 == point1[2]
        lat2 == point2[1]
        lon2 == point2[2]
        delta_lat == lat2 - lat1
        delta_lon == lon2 - lon1
        cos_cos == ((cos(lat1) \div 10^4) * (cos(lat2) \div 10^4)) \div 10^4
        \* 4 * a, in units of (1e-6 degree)^2
        a == delta_lat * delta_lat * 10^4 + cos_cos * delta_lon * delta_lon
        \* c in 1e-6 degrees; radians(c) * R is c * R * pi / 180, pi = 355/113
        c == sqrt(a)
    IN  (((R * c) \div 180) * 355) \div 113

\* lines 137-151: the index (from 1) in `remaining` of the first task at the
\* smallest distance from current
RECURSIVE ScanNearest(_, _, _, _, _)
ScanNearest(current, rem, i, nearest_idx, nearest_distance) ==
    IF i > Len(rem) THEN nearest_idx
    ELSE LET distance == _haversine_distance(current, rem[i].coordinates)
         IN  IF distance < nearest_distance
             THEN ScanNearest(current, rem, i + 1, i, distance)
             ELSE ScanNearest(current, rem, i + 1, nearest_idx, nearest_distance)
\* variants of NearestIdx: the scan that never moves off the first task, and
\* the scan that replaces the candidate on equality
NearestIdxNoScan(current, rem) == 1
RECURSIVE ScanNearestOrEqual(_, _, _, _, _)
ScanNearestOrEqual(current, rem, i, nearest_idx, nearest_distance) ==
    IF i > Len(rem) THEN nearest_idx
    ELSE LET distance == _haversine_distance(current, rem[i].coordinates)
         IN  IF distance <= nearest_distance
             THEN ScanNearestOrEqual(current, rem, i + 1, i, distance)
             ELSE ScanNearestOrEqual(current, rem, i + 1, nearest_idx,
                                     nearest_distance)
NearestIdxLastWins(current, rem) ==
    ScanNearestOrEqual(current, rem, 2, 1,
                       _haversine_distance(current, rem[1].coordinates))
\* variant: a high-priority task is taken before the nearest one
NearestIdxHighPriorityFirst(current, rem) ==
    LET high == { i \in 1..Len(rem) :
                    Get(rem[i].task, "priority") = PyStr("high") }
    IN  IF high # {}
        THEN CHOOSE i \in high : \A j \in high : i <= j
        ELSE ScanNearest(current, rem, 2, 1,
                         _haversine_distance(current, rem[1].coordinates))
NearestIdx(current, rem) ==
    ScanNearest(current, rem, 2, 1,
                _haversine_distance(current, rem[1].coordinates))

\* variant: the pop that always takes the head of the list
WithoutHead(seq, i) == Tail(seq)
\* list.pop(i) leaves the other elements in their order
Without(seq, i) == SubSeq(seq, 1, i - 1) \o SubSeq(seq, i + 1, Len(seq))

RECURSIVE SumHops(_, _)
SumHops(route, n) ==
    IF n = 0 THEN 0
    ELSE SumHops(route, n - 1)
         + GetOr(route[n], "distance_from_previous_km", 0)
\* variant: the sum that leaves out the first stop
TotalDistanceSkipsFirst(route) ==
    IF route = <<>> THEN 0 ELSE SumHops(Tail(route), Len(route) - 1)
_calculate_total_distance(route) == SumHops(route, Len(route))

\* the values sum() adds up at lines 213-216
Duration(point) ==
    GetOr(point.task, "estimated_duration_minutes", PyNum(DefaultDuration))

\* sum() raises TypeError when a value is not a number (0 + None)
EstimateRaises(route) ==
    \E n \in 1..Len(route) : Duration(route[n]).t # "num"

RECURSIVE SumDurations(_, _)
SumDurations(route, n) ==
    IF n = 0 THEN 0
    ELSE SumDurations(route, n - 1) + Duration(route[n]).v

\* variant: the estimate without the per-stop buffer
EstimateWithoutBuffer(route, total_distance_km) ==
    LET travel_time_minutes == (total_distance_km \div SpeedKmh) * 60
        task_time == SumDurations(route, Len(route))
    IN  int(travel_time_minutes + task_time * KM)
_estimate_total_time(route, total_distance_km) ==
    LET travel_time_minutes == (total_distance_km \div SpeedKmh) * 60
        task_time == SumDurations(route, Len(route))
        buffer_time == Len(route) * BufferPerStop
    IN  int(travel_time_minutes + (task_time + buffer_time) * KM)

-----------------------------------------------------------------------------
(* plan_route, lines 39-95 *)

\* variant: a filter that lets every task through
HasLocationAlways(task) == TRUE
\* line 42: the filter of location_tasks
HasLocation(task) ==
    Truthy(Or(Get(task, "location"), Get(task, "location_coordinates")))

\* lines 59-60
ExtractLat(coords) == Or(Get(coords.d, "lat"), Get(coords.d, "latitude"))
ExtractLng(coords) ==
    Or(Or(Get(coords.d, "lng"), Get(coords.d, "longitude")),
       Get(coords.d, "lon"))

\* line 58: coords and isinstance(coords, dict)
IsCoordsDict(coords) == Truthy(coords) /\ coords.t = "dict"

\* variant: the test that lets a single task through
TooFewOffByOne(list) == Len(list) < 1
\* lines 45, 74
TooFew(list) == Len(list) < 2

\* lines 46-52
InsufficientResult(loc_tasks) ==
    [optimized |-> FALSE,
     message |-> PyStr("Need at least 2 tasks with locations to plan a route"),
     tasks |-> loc_tasks,
     total_distance_km |-> 0,
     estimated_time_minutes |-> 0]

\* lines 75-79
UnresolvedResult(loc_tasks) ==
    [optimized |-> FALSE,
     message |-> PyStr("Could not extract location data for route planning"),
     tasks |-> loc_tasks]

\* f"Optimized route for {n} errands"
FString(text, n) == [t |-> "str", s |-> text, n |-> n]

\* lines 88-95
OptimizedResult(optimized_route, total_distance, estimated_time) ==
    [optimized |-> TRUE,
     route |-> optimized_route,
     total_distance_km |-> Round2(total_distance),
     estimated_time_minutes |-> estimated_time,
     task_count |-> Len(optimized_route),
     message |-> FString("Optimized route for {} errands",
                         Len(optimized_route))]

\* variant: the route that is seeded with the first task whatever the start
StartOfRouteAlwaysSeeds(points, start) ==
    [current_location |-> points[1].coordinates,
     optimized |-> <<[task |-> points[1].task,
                      coordinates |-> points[1].coordinates,
                      distance_from_previous_km |-> 0]>>,
     remaining |-> Tail(points)]
\* lines 123-134: where the route starts, as [current_location, optimized,
\* remaining]
StartOfRoute(points, start) ==
    IF Truthy(start)
    THEN [current_location |-> <<start.lat, start.lng>>,
          optimized |-> <<>>,
          remaining |-> points]
    ELSE [current_location |-> points[1].coordinates,
          optimized |-> <<[task |-> points[1].task,
                           coordinates |-> points[1].coordinates,
                           distance_from_previous_km |-> 0]>>,
          remaining |-> Tail(points)]

\* variant: the distance is written into the caller's task record
StopWritesIntoTask(next_task, nearest_distance) ==
    [task |-> ("distance_from_previous_km" :> PyNum(Round2(nearest_distance)))
                  @@ next_task.task,
     coordinates |-> next_task.coordinates,
     distance_from_previous_km |-> Round2(nearest_distance)]
\* variant: the distance as computed, not rounded
StopUnrounded(next_task, nearest_distance) ==
    [task |-> next_task.task,
     coordinates |-> next_task.coordinates,
     distance_from_previous_km |-> nearest_distance]
\* lines 155-158: the stop appended for next_task
Stop(next_task, nearest_distance) ==
    [task |-> next_task.task,
     coordinates |-> next_task.coordinates,
     distance_from_previous_km |-> Round2(nearest_distance)]

\* variant: the fallback point derived from the task's id
MockPointFromId(task) ==
    [task |-> task,
     coordinates |-> _generate_mock_coordinates(Get(task, "id"))]
\* lines 69-72: the point of a task without usable coordinates
MockPoint(task) ==
    [task |-> task,
     coordinates |->
         _generate_mock_coordinates(GetOr(task, "location", PyStr("")))]

-----------------------------------------------------------------------------
(* format_route_for_display, lines 224-253.  A str built by an f-string is  *)
(* the record of its template and of the values it interpolates; the str    *)
(* joined from lines by "\n" is the record of the sequence of its lines.    *)

\* line 235 (the template starts with a pin emoji), lines 236-237
HeaderLines(route_data, route) ==
    << FString("Optimized Route ({} stops)", Len(route)),
       FString("Total distance: {} km",
               GetOr(route_data, "total_distance_km", 0)),
       FString("Estimated time: {} minutes",
               GetOr(route_data, "estimated_time_minutes", 0)) >>

\* variant: the distance shown on every line
StopLineAlwaysAway(point, i) ==
    [t |-> "str", s |-> "{}. {} - {} ({} km away)", i |-> i,
     title |-> GetOr(point.task, "title", PyStr("Task")),
     location |-> Or(Get(point.task, "location"), PyStr("Location")),
     distance |-> GetOr(point, "distance_from_previous_km", 0)]
\* lines 243-251: the line of the i-th stop
StopLine(point, i) ==
    LET task == point.task
        distance == GetOr(point, "distance_from_previous_km", 0)
        location == Or(Get(task, "location"), PyStr("Location"))
    IN  IF i = 1
        THEN [t |-> "str", s |-> "{}. {} - {}", i |-> i,
              title |-> GetOr(task, "title", PyStr("Task")),
              location |-> location]
        ELSE [t |-> "str", s |-> "{}. {} - {} ({} km away)", i |-> i,
              title |-> GetOr(task, "title", PyStr("Task")),
              location |-> location, distance |-> distance]

\* "\n".join(lines)
JoinLines(lines) == [t |-> "str", lines |-> lines]

\* variant: the route layout without the "Route order:" caption
RouteTextNoCaption(route_data, route) ==
    JoinLines(HeaderLines(route_data, route) \o << PyStr("") >>
              \o [i \in 1..Len(route) |-> StopLine(route[i], i)])
\* lines 234-253: the text of a non-empty route
RouteText(route_data, route) ==
    JoinLines(HeaderLines(route_data, route)
              \o << PyStr(""), PyStr("Route order:") >>
              \o [i \in 1..Len(route) |-> StopLine(route[i], i)])

\* variant: the fixed text whatever the message
FormatIgnoresMessage(route_data) ==
    IF ~GetOr(route_data, "optimized", FALSE)
    THEN PyStr("Route planning unavailable")
    ELSE RouteText(route_data, route_data.route)
\* lines 224-253
format_route_for_display(route_data) ==
    IF ~GetOr(route_data, "optimized", FALSE)
    THEN GetOr(route_data, "message", PyStr("Route planning unavailable"))
    ELSE LET route == GetOr(route_data, "route", <<>>)
         IN  IF route = <<>>
             THEN PyStr("No route generated")
             ELSE RouteText(route_data, route)

\* variant: the points of earlier calls are kept
AccumulatedTaskPoints == task_points
\* line 55: task_points = []
NewTaskPoints == <<>>

-----------------------------------------------------------------------------
(* plan_route as a function of its arguments: what a call that runs from   *)
(* its first line to its return, alone, gives back                         *)

\* lines 57-72: what one task adds to task_points: its point, nothing, or
\* the exception of float()
Resolved(task) ==
    LET coords == Get(task, "location_coordinates")
    IN  IF IsCoordsDict(coords)
        THEN LET lat == ExtractLat(coords)
                 lng == ExtractLng(coords)
             IN  IF Truthy(lat) /\ Truthy(lng)
                 THEN IF FloatRaises(lat) \/ FloatRaises(lng)
                      THEN [kind |-> "raise"]
                      ELSE [kind |-> "point",
                            point |-> [task |-> task,
                                       coordinates |->
                                           <<float(lat), float(lng)>>]]
                 ELSE [kind |-> "skip"]
        ELSE [kind |-> "point", point |-> MockPoint(task)]

\* lines 55-72: task_points after the loop, or the exception
RECURSIVE ResolveAll(_, _)
ResolveAll(loc_tasks, points) ==
    IF loc_tasks = <<>>
    THEN [raised |-> FALSE, points |-> points]
    ELSE LET r == Resolved(Head(loc_tasks))
         IN  CASE r.kind = "raise" -> [raised |-> TRUE, points |-> points]
               [] r.kind = "skip" -> ResolveAll(Tail(loc_tasks), points)
               [] OTHER -> ResolveAll(Tail(loc_tasks),
                                      Append(points, r.point))

\* lines 137-161: the loop `while remaining`, run to its end
RECURSIVE VisitAll(_, _, _)
VisitAll(current, route, rest) ==
    IF rest = <<>>
    THEN route
    ELSE LET nearest_idx == NearestIdx(current, rest)
             next_task == rest[nearest_idx]
             nearest_distance ==
                 _haversine_distance(current, next_task.coordinates)
         IN  VisitAll(next_task.coordinates,
                      Append(route, Stop(next_task, nearest_distance)),
                      Without(rest, nearest_idx))

\* lines 110-161
_optimize_route(points, start) ==
    IF points = <<>>
    THEN <<>>
    ELSE LET s == StartOfRoute(points, start)
         IN  VisitAll(s.current_location, s.optimized, s.remaining)

\* what a caller gets: a returned dict, or an exception
Returns(value) == [pc |-> "done", result |-> value, error |-> ""]
Raises(exception) == [pc |-> "raised", result |-> PyNone, error |-> exception]

\* lines 24-95
plan_route(task_list, start) ==
    LET loc_tasks == SelectSeq(task_list, HasLocation)
    IN  IF TooFew(loc_tasks)
        THEN Returns(InsufficientResult(loc_tasks))
        ELSE LET resolved == ResolveAll(loc_tasks, NewTaskPoints)
             IN  IF resolved.raised
                 THEN Raises("ValueError")
                 ELSE IF TooFew(resolved.points)
                 THEN Returns(UnresolvedResult(loc_tasks))
                 ELSE LET route == _optimize_route(resolved.points, start)
                          total == _calculate_total_distance(route)
                      IN  IF EstimateRaises(route)
                          THEN Raises("TypeError")
                          ELSE Returns(OptimizedResult(route, total,
                                   _estimate_total_time(route, total)))

-----------------------------------------------------------------------------
(* The inputs of a call *)

MaxTasks == 3              \* longest task list

Coords(latKey, lat, lngKey, lng) ==
    PyDict((latKey :> PyNum(lat)) @@ (lngKey :> PyNum(lng)))

\* Task dicts, before their "id".  Three tasks at the coordinates
\* (37.7749,-122.4194), (37.7849,-122.4094), (37.8049,-122.3894) under the
\* three key spellings; a second task at the second point; a task with a
\* location text only; a task with neither location nor coordinates; a task
\* at latitude 0; a task whose duration is None; a task whose latitude is
\* not a number.
TaskPool ==
    { [title |-> PyStr("a"), location |-> PyStr("A"),
       location_coordinates |-> Coords("lat", 377749, "lng", -1224194),
       estimated_duration_minutes |-> PyNum(15), priority |-> PyStr("high")],
      [title |-> PyStr("b"), location |-> PyStr("B"),
       location_coordinates |->
           Coords("latitude", 377849, "longitude", -1224094),
       estimated_duration_minutes |-> PyNum(15), priority |-> PyStr("low")],
      [title |-> PyStr("c"), location |-> PyNone,
       location_coordinates |-> Coords("lat", 378049, "lon", -1223894),
       priority |-> PyStr("low")],
      [title |-> PyStr("b2"), location |-> PyStr("B"),
       location_coordinates |-> Coords("lat", 377849, "lng", -1224094),
       estimated_duration_minutes |-> PyNum(10), priority |-> PyStr("high")],
      [title |-> PyStr("s"), location |-> PyStr("Store"),
       estimated_duration_minutes |-> PyNum(30), priority |-> PyStr("low")],
      [title |-> PyStr("n"), location |-> PyNone,
       location_coordinates |-> PyNone,
       estimated_duration_minutes |-> PyNum(15), priority |-> PyStr("low")],
      [title |-> PyStr("z"), location |-> PyStr("Equator"),
       location_coordinates |-> Coords("lat", 0, "lng", -1224194),
       estimated_duration_minutes |-> PyNum(15), priority |-> PyStr("low")],
      [title |-> PyStr("d"), location |-> PyStr("A"),
       location_coordinates |-> Coords("lat", 377749, "lng", -1224194),
       estimated_duration_minutes |-> PyNone, priority |-> PyStr("low")],
      [title |-> PyStr("e"), location |-> PyStr("E"),
       location_coordinates |->
           PyDict([lat |-> PyStr("abc"), lng |-> PyNum(-1224094)]),
       estimated_duration_minutes |-> PyNum(15), priority |-> PyStr("low")] }

\* the task list whose i-th dict is shapes[i] with "id" i
WithIds(shapes) ==
    [i \in 1..Len(shapes) |-> ("id" :> PyNum(i)) @@ shapes[i]]

TaskLists ==
    { WithIds(shapes) :
        shapes \in UNION { [1..n -> TaskPool] : n \in 0..MaxTasks } }

\* two processes: "Store" hashes to a negative and to a positive value
HashSeeds == { -7985, 121005 }

\* no start; a start near the second task; a start at the third task
StartLocations ==
    { PyNone, PyTuple(377800, -1224000), PyTuple(378049, -1223894) }

-----------------------------------------------------------------------------
(* The state machine: a call of plan_route, then format_route_for_display *)

Init ==
    /\ tasks \in TaskLists
    /\ start_location \in StartLocations
    /\ pc = "filter"
    /\ location_tasks = <<>>
    /\ task_points = <<>>
    /\ idx = 1
    /\ current_location = <<0, 0>>
    /\ optimized = <<>>
    /\ remaining = <<>>
    /\ result = PyNone
    /\ error = ""
    /\ display = PyNone
    /\ hash_seed \in HashSeeds
    /\ first_call = PyNone
    /\ other = PyNone
    /\ db = <<>>
    /\ response = PyNone
    /\ awaiting = EmptyBag
    /\ clock = 0

\* lines 39-55
FilterTasks ==
    /\ pc = "filter"
    /\ LET loc_tasks == SelectSeq(tasks, HasLocation)
       IN  /\ location_tasks' = loc_tasks
           /\ IF TooFew(loc_tasks)
              THEN /\ result' = InsufficientResult(loc_tasks)
                   /\ pc' = "done"
                   /\ UNCHANGED <<task_points, idx>>
              ELSE /\ result' = result
                   /\ pc' = "resolve"
                   /\ task_points' = NewTaskPoints
                   /\ idx' = 1
    /\ UNCHANGED <<tasks, start_location, current_location, optimized,
                   remaining, error, display, hash_seed, first_call,
                   other, db, response, awaiting,
                   clock>>

\* lines 56-72: one iteration of `for task in location_tasks`
ResolveTask ==
    /\ pc = "resolve"
    /\ idx <= Len(location_tasks)
    /\ LET task == location_tasks[idx]
           coords == Get(task, "location_coordinates")
       IN  IF IsCoordsDict(coords)
           THEN LET lat == ExtractLat(coords)
                    lng == ExtractLng(coords)
                IN  IF Truthy(lat) /\ Truthy(lng)
                    THEN IF FloatRaises(lat) \/ FloatRaises(lng)
                         THEN /\ pc' = "raised"
                              /\ error' = "ValueError"
                              /\ UNCHANGED <<task_points, idx>>
                         ELSE /\ task_points' = Append(task_points,
                                   [task |-> task,
                                    coordinates |-> <<float(lat), float(lng)>>])
                              /\ idx' = idx + 1
                              /\ UNCHANGED <<pc, error>>
                    ELSE /\ idx' = idx + 1
                         /\ UNCHANGED <<task_points, pc, error>>
           ELSE /\ task_points' = Append(task_points, MockPoint(task))
                /\ idx' = idx + 1
                /\ UNCHANGED <<pc, error>>
    /\ UNCHANGED <<tasks, start_location, location_tasks, current_location,
                   optimized, remaining, result, display, hash_seed,
                   first_call,
                   other, db, response, awaiting,
                   clock>>

\* lines 74-79, and lines 82, 119-134 when the route is planned
StartRoute ==
    /\ pc = "resolve"
    /\ idx > Len(location_tasks)
    /\ IF TooFew(task_points)
       THEN /\ result' = UnresolvedResult(location_tasks)
            /\ pc' = "done"
            /\ UNCHANGED <<current_location, optimized, remaining>>
       ELSE LET s == StartOfRoute(task_points, start_location)
            IN  /\ current_location' = s.current_location
                /\ optimized' = s.optimized
                /\ remaining' = s.remaining
                /\ pc' = "loop"
                /\ result' = result
    /\ UNCHANGED <<tasks, start_location, location_tasks, task_points, idx,
                   error, display, hash_seed, first_call,
                   other, db, response, awaiting,
                   clock>>

\* lines 137-159: one iteration of `while remaining`
VisitNearest ==
    /\ pc = "loop"
    /\ remaining # <<>>
    /\ LET nearest_idx == NearestIdx(current_location, remaining)
           next_task == remaining[nearest_idx]
           nearest_distance ==
               _haversine_distance(current_location, next_task.coordinates)
       IN  /\ remaining' = Without(remaining, nearest_idx)
           /\ optimized' = Append(optimized, Stop(next_task, nearest_distance))
           /\ current_location' = next_task.coordinates
    /\ UNCHANGED <<tasks, start_location, pc, location_tasks, task_points,
                   idx, result, error, display, hash_seed, first_call,
                   other, db, response, awaiting,
                   clock>>

\* lines 161, 84-95
ReturnRoute ==
    /\ pc = "loop"
    /\ remaining = <<>>
    /\ LET total_distance == _calculate_total_distance(optimized)
       IN  IF EstimateRaises(optimized)
           THEN /\ pc' = "raised"
                /\ error' = "TypeError"
                /\ result' = result
           ELSE /\ result' = OptimizedResult(optimized, total_distance,
                                 _estimate_total_time(optimized, total_distance))
                /\ pc' = "done"
                /\ error' = error
    /\ UNCHANGED <<tasks, start_location, location_tasks, task_points, idx,
                   current_location, optimized, remaining, display,
                   hash_seed, first_call,
                   other, db, response, awaiting,
                   clock>>

\* api/routes/route_planner.py line 126: the returned dict is rendered
FormatRoute ==
    /\ pc = "done"
    /\ display = PyNone
    /\ display' = format_route_for_display(result)
    /\ UNCHANGED <<tasks, start_location, pc, location_tasks, task_points,
                   idx, current_location, optimized, remaining, result,
                   error, hash_seed, first_call,
                   other, db, response, awaiting,
                   clock>>

Next ==
    \/ FilterTasks
    \/ ResolveTask
    \/ StartRoute
    \/ VisitNearest
    \/ ReturnRoute
    \/ FormatRoute

Spec == Init /\ [][Next]_vars

-----------------------------------------------------------------------------
(* Successive calls on the one RoutePlanner of a process.  What a call left *)
(* in the variables stays there until the next call assigns it.             *)

\* the task of the pool with the given title
Shape(title) == CHOOSE task \in TaskPool : task.title = PyStr(title)

\* task lists of the calls, by title: they return a route, raise, or return
\* either optimized = false result
CallTitles ==
    { <<>>, <<"a">>, <<"s", "a">>, <<"a", "s">>, <<"a", "c", "b">>,
      <<"c", "b", "a">>, <<"s", "s", "c">>, <<"b", "b2", "a">>,
      <<"z", "a">>, <<"d", "a">>, <<"e", "a">> }

CallTaskLists ==
    { WithIds([i \in 1..Len(titles) |-> Shape(titles[i])]) :
        titles \in CallTitles }

CallStarts == { PyNone, PyTuple(377800, -1224000) }

InitCalls ==
    /\ tasks \in CallTaskLists
    /\ start_location \in CallStarts
    /\ pc = "filter"
    /\ location_tasks = <<>>
    /\ task_points = <<>>
    /\ idx = 1
    /\ current_location = <<0, 0>>
    /\ optimized = <<>>
    /\ remaining = <<>>
    /\ result = PyNone
    /\ error = ""
    /\ display = PyNone
    /\ hash_seed \in HashSeeds
    /\ first_call = PyNone
    /\ other = PyNone
    /\ db = <<>>
    /\ response = PyNone
    /\ awaiting = EmptyBag
    /\ clock = 0

\* the arguments and the outcome of the call that has just ended
EndedCall ==
    [tasks |-> tasks, start_location |-> start_location, pc |-> pc,
     result |-> result, error |-> error, between |-> FALSE]

\* api/routes/route_planner.py line 105: the next call of
\* route_planner.plan_route on the module's RoutePlanner
NextCall ==
    /\ pc \in {"done", "raised"}
    /\ \E new_tasks \in CallTaskLists, new_start \in CallStarts :
           /\ tasks' = new_tasks
           /\ start_location' = new_start
           /\ first_call' =
                  IF first_call = PyNone
                  THEN EndedCall
                  ELSE [first_call EXCEPT !.between =
                           @ \/ new_tasks # first_call.tasks
                             \/ new_start # first_call.start_location]
    /\ pc' = "filter"
    /\ result' = PyNone
    /\ error' = ""
    /\ display' = PyNone
    /\ UNCHANGED <<location_tasks, task_points, idx, current_location,
                   optimized, remaining, hash_seed, other, db, response, awaiting,
                   clock>>

\* one call on the arguments above; plan_route is synchronous: once called
\* it runs until it returns or raises
SpecLive == InitCalls /\ [][Next]_vars /\ WF_vars(Next)

NextCalls == Next \/ NextCall

SpecCalls == InitCalls /\ [][NextCalls]_vars

-----------------------------------------------------------------------------
(* Two concurrent invocations of plan_route on the one RoutePlanner.  The  *)
(* variables hold the arguments and locals of the invocation that runs;    *)
(* `other` holds those of the suspended one.  Invocations are switched     *)
(* between any two steps.                                                  *)

\* the arguments and locals of the running invocation
Locals ==
    [tasks |-> tasks, start_location |-> start_location, pc |-> pc,
     location_tasks |-> location_tasks, task_points |-> task_points,
     idx |-> idx, current_location |-> current_location,
     optimized |-> optimized, remaining |-> remaining, result |-> result,
     error |-> error, display |-> display]

\* the locals of an invocation that has not started
EnteredWith(task_list, start) ==
    [tasks |-> task_list, start_location |-> start, pc |-> "filter",
     location_tasks |-> <<>>, task_points |-> <<>>, idx |-> 1,
     current_location |-> <<0, 0>>, optimized |-> <<>>, remaining |-> <<>>,
     result |-> PyNone, error |-> "", display |-> PyNone]

\* variant: current_location, optimized and remaining belong to the
\* RoutePlanner, so the resumed invocation finds what the other left
ResumedOnSharedRoute ==
    [other.locals EXCEPT !.current_location = current_location,
                         !.optimized = optimized,
                         !.remaining = remaining]
\* lines 122-134: current_location, optimized and remaining are locals of
\* _optimize_route, so the resumed invocation finds its own
Resumed == other.locals

InitConcurrent ==
    /\ tasks \in CallTaskLists
    /\ start_location \in CallStarts
    /\ pc = "filter"
    /\ location_tasks = <<>>
    /\ task_points = <<>>
    /\ idx = 1
    /\ current_location = <<0, 0>>
    /\ optimized = <<>>
    /\ remaining = <<>>
    /\ result = PyNone
    /\ error = ""
    /\ display = PyNone
    /\ hash_seed \in HashSeeds
    /\ first_call = PyNone
    /\ \E task_list \in CallTaskLists, start \in CallStarts :
           other = [id |-> 2, locals |-> EnteredWith(task_list, start)]
    /\ db = <<>>
    /\ response = PyNone
    /\ awaiting = EmptyBag
    /\ clock = 0

\* the running invocation is suspended and the other one resumed
Switch ==
    /\ other # PyNone
    /\ other' = [id |-> 3 - other.id, locals |-> Locals]
    /\ tasks' = Resumed.tasks
    /\ start_location' = Resumed.start_location
    /\ pc' = Resumed.pc
    /\ location_tasks' = Resumed.location_tasks
    /\ task_points' = Resumed.task_points
    /\ idx' = Resumed.idx
    /\ current_location' = Resumed.current_location
    /\ optimized' = Resumed.optimized
    /\ remaining' = Resumed.remaining
    /\ result' = Resumed.result
    /\ error' = Resumed.error
    /\ display' = Resumed.display
    /\ UNCHANGED <<hash_seed, first_call, db, response, awaiting,
                   clock>>

NextConcurrent == Next \/ Switch

SpecConcurrent == InitConcurrent /\ [][NextConcurrent]_vars

-----------------------------------------------------------------------------
(* Processes over the range of hash values: a call with two tasks that     *)
(* have the location text "Store" and no coordinates                       *)

MaxHash == 10100           \* largest magnitude of hash("Store")

StoreTask == CHOOSE task \in TaskPool : task.title = PyStr("s")

InitHash ==
    /\ tasks = WithIds(<<StoreTask, StoreTask>>)
    /\ start_location = PyNone
    /\ pc = "filter"
    /\ location_tasks = <<>>
    /\ task_points = <<>>
    /\ idx = 1
    /\ current_location = <<0, 0>>
    /\ optimized = <<>>
    /\ remaining = <<>>
    /\ result = PyNone
    /\ error = ""
    /\ display = PyNone
    /\ hash_seed \in -MaxHash..MaxHash
    /\ first_call = PyNone
    /\ other = PyNone
    /\ db = <<>>
    /\ response = PyNone
    /\ awaiting = EmptyBag
    /\ clock = 0

SpecHash == InitHash /\ [][Next]_vars

-----------------------------------------------------------------------------
(* Vocabulary of the properties *)

\* a task that has a location or location_coordinates
Locatable(task) ==
    \/ Truthy(Get(task, "location"))
    \/ Truthy(Get(task, "location_coordinates"))

LocatableTasks == SelectSeq(tasks, Locatable)

Returned == pc = "done"
ReturnedRoute == pc = "done" /\ result.optimized
StartGiven == start_location # PyNone
StartPoint == <<start_location.lat, start_location.lng>>

\* the stops placed so far followed by the tasks still to place
Placed == optimized \o remaining

\* the stops the nearest-neighbour loop chose: all of them with a start
\* location, all but the seeded first one without
LoopChosen == IF StartGiven THEN 1..Len(optimized) ELSE 2..Len(optimized)

\* where the scan that chose stop i looked from
From(i) == IF i = 1 THEN StartPoint ELSE optimized[i - 1].coordinates

Hop(stop) == stop.distance_from_previous_km
TaskIds(route) == [i \in 1..Len(route) |-> route[i].task.id.v]

RECURSIVE SumOfHops(_)
SumOfHops(route) ==
    IF route = <<>> THEN 0 ELSE Hop(Head(route)) + SumOfHops(Tail(route))

\* the three tasks of the scenario, in its order
ThreePointScenario ==
    /\ Len(task_points) = 3
    /\ Len(tasks) = 3
    /\ task_points[1].coordinates = <<377749, -1224194>>
    /\ task_points[2].coordinates = <<377849, -1224094>>
    /\ task_points[3].coordinates = <<378049, -1223894>>
    /\ ~StartGiven

-----------------------------------------------------------------------------
(* Properties *)

\* C1: when N >= 2 of the input tasks are locatable, the returned route has
\* exactly N stops and each locatable input task is in it exactly once.
C1_RouteIsPermutationOfLocatable ==
    (ReturnedRoute /\ Len(LocatableTasks) >= 2) =>
        /\ Len(result.route) = Len(LocatableTasks)
        /\ \A i \in 1..Len(tasks) :
               Locatable(tasks[i]) =>
                   Cardinality({ j \in 1..Len(result.route) :
                                   result.route[j].task = tasks[i] }) = 1

\* C2: every stop the nearest-neighbour loop chose is at most as far from the
\* place the scan looked from as every stop after it (and every task still
\* remaining); the returned route is that sequence of stops; the three-task
\* scenario gives the order 1, 2, 3.
C2_EachStopIsNearestRemaining ==
    /\ \A i \in LoopChosen :
           \A j \in (i + 1)..Len(Placed) :
               _haversine_distance(From(i), Placed[i].coordinates)
                   <= _haversine_distance(From(i), Placed[j].coordinates)
    /\ ReturnedRoute => result.route = optimized /\ remaining = <<>>
    /\ (ReturnedRoute /\ ThreePointScenario) =>
           TaskIds(result.route) = <<1, 2, 3>>

\* C2 witness: a returned route that visits the second input task after the
\* third, because the third is nearer
C2_Witness_Reordered ==
    /\ ReturnedRoute
    /\ ~StartGiven
    /\ TaskIds(result.route) = <<1, 3, 2>>
    /\ Hop(result.route[2]) < Hop(result.route[3])

\* C3: without a start location the first stop is the first locatable task of
\* the input list, with distance_from_previous_km 0.0, and the stops after it
\* are placed by the nearest-neighbour loop that starts from that task's
\* coordinates, each with the rounded distance from the stop before it.
C3_FirstLocatableTaskIsFirstStop ==
    (ReturnedRoute /\ ~StartGiven) =>
        /\ result.route[1].task = Head(LocatableTasks)
        /\ Hop(result.route[1]) = 0
        /\ \A i \in 2..Len(result.route) :
               Hop(result.route[i]) =
                   Round2(_haversine_distance(result.route[i - 1].coordinates,
                                              result.route[i].coordinates))

\* C4: with a start location no task is seeded (every resolved task is in the
\* scan), the first stop is a resolved task nearest to the start, its
\* distance_from_previous_km is the rounded distance from the start, and the
\* total counts that hop with the hops of the other stops.
C4_StartLocationSeedsNothing ==
    StartGiven =>
        /\ pc = "loop" => Len(optimized) + Len(remaining) = Len(task_points)
        /\ (pc = "loop" /\ optimized = <<>>) => remaining = task_points
        /\ optimized # <<>> =>
               /\ \A n \in 1..Len(task_points) :
                      _haversine_distance(StartPoint, optimized[1].coordinates)
                          <= _haversine_distance(StartPoint,
                                                 task_points[n].coordinates)
               /\ Hop(optimized[1]) =
                      Round2(_haversine_distance(StartPoint,
                                                 optimized[1].coordinates))
        /\ ReturnedRoute =>
               result.total_distance_km =
                   Hop(result.route[1]) + SumOfHops(Tail(result.route))

\* C4 witness: a returned route whose first stop is away from the start
C4_Witness_FirstHopFromStart ==
    /\ ReturnedRoute
    /\ StartGiven
    /\ Hop(result.route[1]) > 0
    /\ result.route[1].task.id.v # 1

\* C5: the remaining list keeps the tasks in input order, and of the tasks at
\* the same minimal distance the loop takes the earliest in the input.
C5_FirstOfEquidistantWins ==
    /\ \A i, j \in 1..Len(remaining) :
           i < j => remaining[i].task.id.v < remaining[j].task.id.v
    /\ \A i \in LoopChosen :
           \A j \in (i + 1)..Len(Placed) :
               _haversine_distance(From(i), Placed[i].coordinates)
                   = _haversine_distance(From(i), Placed[j].coordinates)
               => Placed[i].task.id.v < Placed[j].task.id.v

\* C5 witness: two tasks at one distance from the first stop, which is
\* elsewhere; the earlier one was visited first
C5_Witness_TieOccurred ==
    /\ ReturnedRoute
    /\ ~StartGiven
    /\ Len(result.route) = 3
    /\ Hop(result.route[2]) > 0
    /\ _haversine_distance(From(2), optimized[2].coordinates)
           = _haversine_distance(From(2), optimized[3].coordinates)

\* C6: total_distance_km is the sum of the stops' distance_from_previous_km,
\* rounded to 2 decimals, the hop from the start included.
C6_TotalIsSumOfHops ==
    ReturnedRoute =>
        result.total_distance_km = Round2(SumOfHops(result.route))

\* C6 witness: a returned route from a start location with three non-zero hops
C6_Witness_ThreeHops ==
    /\ ReturnedRoute
    /\ StartGiven
    /\ Len(result.route) = 3
    /\ \A i \in 1..3 : Hop(result.route[i]) > 0

\* the minutes a stop's task takes: its estimated_duration_minutes, 15 when
\* the task has none
StopMinutes(stop) ==
    LET d == Get(stop.task, "estimated_duration_minutes")
    IN  IF d = PyNone THEN 15 ELSE d.v

RECURSIVE SumOfStopMinutes(_)
SumOfStopMinutes(route) ==
    IF route = <<>> THEN 0
    ELSE StopMinutes(Head(route)) + SumOfStopMinutes(Tail(route))

\* (total_distance_km / 40) * 60 + task minutes + 5 * N, truncated
TimeFormula(route, total) ==
    ((total * 60) \div 40 + (SumOfStopMinutes(route) + 5 * Len(route)) * KM)
        \div KM

TwoStopsOfFifteen ==
    <<[task |-> [estimated_duration_minutes |-> PyNum(15)]],
      [task |-> [estimated_duration_minutes |-> PyNum(15)]]>>

\* C7: estimated_time_minutes is (total_distance_km / 40) * 60 plus the
\* stops' durations plus 5 per stop, truncated; 2 stops of 15 minutes and
\* 10 km give 55.
C7_EstimatedTimeFormula ==
    /\ ReturnedRoute =>
           result.estimated_time_minutes
               = TimeFormula(result.route, result.total_distance_km)
    /\ _estimate_total_time(TwoStopsOfFifteen, 10 * KM) = 55

\* C7 witness: a returned route whose travel time has a fraction of a minute
\* that the truncation drops
C7_Witness_Truncated ==
    /\ ReturnedRoute
    /\ (result.total_distance_km * 60) % (40 * KM) # 0
    /\ result.estimated_time_minutes > SumOfStopMinutes(result.route)
                                           + 5 * Len(result.route)

\* C8: a stop whose task has no estimated_duration_minutes (missing, or
\* None) counts 15 minutes, and plan_route returns a result for it.
C8_UnsetDurationCountsFifteen ==
    /\ pc = "raised" => error # "TypeError"
    /\ ReturnedRoute =>
           result.estimated_time_minutes
               = TimeFormula(result.route, result.total_distance_km)

\* C9: with 0 or 1 locatable tasks plan_route raises nothing and returns at
\* once optimized = false, total_distance_km = 0, estimated_time_minutes = 0.
C9_FewerThanTwoLocatable ==
    Len(LocatableTasks) < 2 =>
        /\ pc \in {"filter", "done"}
        /\ Returned =>
               /\ result.optimized = FALSE
               /\ "total_distance_km" \in DOMAIN result
               /\ result.total_distance_km = 0
               /\ "estimated_time_minutes" \in DOMAIN result
               /\ result.estimated_time_minutes = 0

\* C9 witness: a call with a start location, one locatable task and two
\* tasks that are not, that has returned
C9_Witness_OneLocatable ==
    /\ Returned
    /\ StartGiven
    /\ Len(tasks) = 3
    /\ Len(LocatableTasks) = 1

\* C10: whenever fewer than 2 tasks resolved to coordinates the result is
\* optimized = false with total_distance_km = 0, estimated_time_minutes = 0
\* and a message.
C10_UnresolvedResultCarriesTotals ==
    (Returned /\ Len(task_points) < 2) =>
        /\ result.optimized = FALSE
        /\ "message" \in DOMAIN result
        /\ "total_distance_km" \in DOMAIN result
        /\ result.total_distance_km = 0
        /\ "estimated_time_minutes" \in DOMAIN result
        /\ result.estimated_time_minutes = 0

-----------------------------------------------------------------------------
(* Coordinates of the input tasks *)

CoordsOf(task) == Get(task, "location_coordinates")

\* the task gives a latitude and a longitude under an accepted spelling
GivesLatLng(task) ==
    /\ CoordsOf(task).t = "dict"
    /\ \/ {"lat", "lng"} \subseteq DOMAIN CoordsOf(task).d
       \/ {"latitude", "longitude"} \subseteq DOMAIN CoordsOf(task).d
       \/ {"lat", "lon"} \subseteq DOMAIN CoordsOf(task).d

\* a latitude or longitude value that is not a number
Malformed(task) ==
    /\ GivesLatLng(task)
    /\ \E key \in DOMAIN CoordsOf(task).d : CoordsOf(task).d[key].t = "str"

\* the coordinates derived from the task's location text
DerivedCoordinates(task) ==
    _generate_mock_coordinates(GetOr(task, "location", PyStr("")))

\* the stops of the returned route that carry the given task
StopsOf(task) ==
    { j \in 1..Len(result.route) : result.route[j].task = task }

\* C11: a task with a latitude or longitude that is not a number makes
\* plan_route raise nothing, and in the returned route the task is a stop
\* at the coordinates derived from its location text.
C11_MalformedCoordinateFallsBack ==
    /\ pc = "raised" => error # "ValueError"
    /\ ReturnedRoute =>
           \A i \in 1..Len(tasks) :
               Malformed(tasks[i]) =>
                   \E j \in StopsOf(tasks[i]) :
                       result.route[j].coordinates =
                           DerivedCoordinates(tasks[i])

\* the latitude and longitude a task gives, whatever the spelling
GivenLat(task) ==
    IF "lat" \in DOMAIN CoordsOf(task).d
    THEN CoordsOf(task).d["lat"] ELSE CoordsOf(task).d["latitude"]
GivenLng(task) ==
    IF "lng" \in DOMAIN CoordsOf(task).d THEN CoordsOf(task).d["lng"]
    ELSE IF "longitude" \in DOMAIN CoordsOf(task).d
         THEN CoordsOf(task).d["longitude"] ELSE CoordsOf(task).d["lon"]

\* explicit coordinates: a numeric latitude and a numeric longitude
GivesNumbers(task) ==
    /\ GivesLatLng(task)
    /\ GivenLat(task).t = "num"
    /\ GivenLng(task).t = "num"

\* C12: in every returned route each input task that gives a numeric
\* latitude and longitude, under any accepted spelling and zero included,
\* is a stop, and its stop's coordinates are exactly those two values.
C12_ExplicitCoordinatesUsedDirectly ==
    ReturnedRoute =>
        \A i \in 1..Len(tasks) :
            GivesNumbers(tasks[i]) =>
                /\ StopsOf(tasks[i]) # {}
                /\ \A j \in StopsOf(tasks[i]) :
                       result.route[j].coordinates =
                           <<GivenLat(tasks[i]).v, GivenLng(tasks[i]).v>>

-----------------------------------------------------------------------------
(* Eligibility *)

AllLocatable(points) == \A i \in 1..Len(points) : Locatable(points[i].task)

\* C13: a task with neither location nor location_coordinates is in no list
\* plan_route works on and in no returned route or task list, and a route
\* is returned only when at least 2 input tasks have one of the two set.
C13_OnlyLocatableTasksAreRouted ==
    /\ \A i \in 1..Len(location_tasks) : Locatable(location_tasks[i])
    /\ AllLocatable(task_points)
    /\ AllLocatable(optimized)
    /\ AllLocatable(remaining)
    /\ ReturnedRoute =>
           /\ AllLocatable(result.route)
           /\ Len(LocatableTasks) >= 2
           /\ result.task_count <= Len(LocatableTasks)
    /\ (Returned /\ ~result.optimized) =>
           \A i \in 1..Len(result.tasks) : Locatable(result.tasks[i])

\* C13 witness: a route of 2 stops returned for 3 tasks, one of which has
\* neither location nor location_coordinates
C13_Witness_UnlocatableLeftOut ==
    /\ ReturnedRoute
    /\ Len(tasks) = 3
    /\ \E i \in 1..3 : ~Locatable(tasks[i])
    /\ Len(result.route) = 2

-----------------------------------------------------------------------------
(* Derived coordinates *)

NoCoordinates(task) == CoordsOf(task) = PyNone
LocationText(task) == Get(task, "location")

\* two tasks without explicit coordinates and with the same location text
SameTextNoCoordinates(t1, t2) ==
    /\ NoCoordinates(t1)
    /\ NoCoordinates(t2)
    /\ LocationText(t1).t = "str"
    /\ LocationText(t1) = LocationText(t2)

\* C14: within a call, two tasks without explicit coordinates and with the
\* same location text are resolved to identical coordinates, and when they
\* are consecutive stops of the returned route the hop between them is 0.
C14_SameTextSameCoordinates ==
    /\ \A i, j \in 1..Len(task_points) :
           SameTextNoCoordinates(task_points[i].task, task_points[j].task)
               => task_points[i].coordinates = task_points[j].coordinates
    /\ ReturnedRoute =>
           \A i \in 2..Len(result.route) :
               SameTextNoCoordinates(result.route[i - 1].task,
                                     result.route[i].task)
                   => /\ result.route[i].coordinates =
                             result.route[i - 1].coordinates
                      /\ Hop(result.route[i]) = 0

\* C14 witness: a returned route whose first two stops are distinct tasks
\* with the location text "Store" and no coordinates
C14_Witness_TwoStoreStops ==
    /\ ReturnedRoute
    /\ result.route[1].task # result.route[2].task
    /\ SameTextNoCoordinates(result.route[1].task, result.route[2].task)
    /\ Hop(result.route[2]) = 0

\* the stops and points of tasks with the text "Store" and no coordinates
IsStore(task) == NoCoordinates(task) /\ LocationText(task) = PyStr("Store")

\* C15: for every hash value h of the label, negative values included, the
\* derived point is (37.7749 + (h mod 100)/1000,
\* -122.4194 + ((h div 100) mod 100)/1000), with both offsets between 0 and
\* 99 thousandths of a degree.
C15_MockCoordinatesFormula ==
    \A i \in 1..Len(task_points) :
        IsStore(task_points[i].task) =>
            LET h == hash_seed
                lat_offset == h % 100
                lng_offset == (h \div 100) % 100
            IN  /\ task_points[i].coordinates =
                       <<377749 + 10 * lat_offset, -1224194 + 10 * lng_offset>>
                /\ lat_offset \in 0..99
                /\ lng_offset \in 0..99

\* C15 witness: a point derived from a negative hash beyond the modulus,
\* with both offsets non-zero
C15_Witness_NegativeHash ==
    /\ hash_seed < -10000
    /\ Len(task_points) = 2
    /\ task_points[1].coordinates[1] > 377749
    /\ task_points[1].coordinates[2] > -1224194

-----------------------------------------------------------------------------
(* Shape of the result *)

OutputFields ==
    {"optimized", "route", "total_distance_km", "estimated_time_minutes",
     "task_count", "message"}

\* C16: every result plan_route returns, optimized or not, carries the six
\* output fields optimized, route, total_distance_km,
\* estimated_time_minutes, task_count and message.
C16_ResultCarriesSixFields ==
    Returned => OutputFields \subseteq DOMAIN result

\* the six fields are carried by every optimized result
OptimizedResultCarriesSixFields ==
    ReturnedRoute => OutputFields \subseteq DOMAIN result

-----------------------------------------------------------------------------
(* Rendering *)

Formatted == Returned /\ display # PyNone
FormattedRoute == ReturnedRoute /\ display # PyNone

\* C17: the rendering of a result with optimized = false is exactly the
\* result's message: the same text and no line besides it.
C17_NotOptimizedRendersMessage ==
    (Formatted /\ ~result.optimized) =>
        /\ display = result.message
        /\ DOMAIN display = {"t", "s"}

\* C17 witness: the rendering of the result returned when fewer than 2
\* tasks resolved to coordinates
C17_Witness_UnresolvedMessageShown ==
    /\ Formatted
    /\ ~result.optimized
    /\ Len(LocatableTasks) >= 2
    /\ display = PyStr("Could not extract location data for route planning")

\* the numbered lines of a rendering, in their order
IsStopLine(line) == "i" \in DOMAIN line
StopLines == SelectSeq(display.lines, IsStopLine)

\* C18: the rendering of an optimized result with N stops has exactly N
\* numbered lines, numbered 1..N in route order, each with its stop's title
\* and location; line 1 carries no distance, whatever the first stop's
\* distance_from_previous_km, and every line i > 1 ends with
\* "(<d> km away)" where d is stop i's distance_from_previous_km.
C18_NumberedStopLines ==
    FormattedRoute =>
        /\ Len(StopLines) = Len(result.route)
        /\ \A i \in 1..Len(StopLines) :
               LET line == StopLines[i]
                   stop == result.route[i]
               IN  /\ line.i = i
                   /\ line.title = stop.task.title
                   /\ LocationText(stop.task).t = "str"
                          => line.location = LocationText(stop.task)
                   /\ i = 1 => /\ "distance" \notin DOMAIN line
                               /\ line.s = "{}. {} - {}"
                   /\ i > 1 => /\ "distance" \in DOMAIN line
                               /\ line.distance = Hop(stop)
                               /\ line.s = "{}. {} - {} ({} km away)"

\* C18 witness: a rendered route of 3 stops planned from a start location,
\* whose first stop is some way from the start
C18_Witness_FirstHopNotShown ==
    /\ FormattedRoute
    /\ StartGiven
    /\ Len(result.route) = 3
    /\ Hop(result.route[1]) > 0
    /\ Hop(result.route[3]) > 0

\* the lines that give a figure of the result, in their order
IsFigureLine(line) == "n" \in DOMAIN line
FigureLines == SelectSeq(display.lines, IsFigureLine)

\* the header: stop count, total distance, total time
HeaderGivesTotals ==
    /\ Len(FigureLines) = 3
    /\ FigureLines[1].n = Len(result.route)
    /\ FigureLines[2].n = result.total_distance_km
    /\ FigureLines[3].n = result.estimated_time_minutes

\* C19 as stated: the rendering of an optimized result is the header giving
\* stop count, total distance and total time, then one blank line, then the
\* numbered stop lines, one per stop, and no other line.
C19_HeaderBlankLineStops ==
    FormattedRoute =>
        /\ HeaderGivesTotals
        /\ Len(StopLines) = Len(result.route)
        /\ display.lines = FigureLines \o << PyStr("") >> \o StopLines

\* C19, amended: the rendering of an optimized result is three header lines
\* giving stop count, total distance and total time, then one blank line,
\* then the line "Route order:", then the numbered stop lines, one per stop,
\* and no other line.
C19_HeaderBlankLineCaptionStops ==
    FormattedRoute =>
        /\ HeaderGivesTotals
        /\ Len(StopLines) = Len(result.route)
        /\ display.lines =
               FigureLines \o << PyStr(""), PyStr("Route order:") >>
                   \o StopLines

\* C19 witness: the rendering of a route of 3 stops, 8 lines long
C19_Witness_EightLines ==
    /\ FormattedRoute
    /\ Len(result.route) = 3
    /\ Len(display.lines) = 8
    /\ result.total_distance_km > 0

-----------------------------------------------------------------------------
(* Determinism *)

\* a call with the arguments of the process's first call has ended
FirstCallRepeated ==
    /\ first_call # PyNone
    /\ pc \in {"done", "raised"}
    /\ tasks = first_call.tasks
    /\ start_location = first_call.start_location

\* C20: a call with the same task list and the same start location as an
\* earlier call of the process ends as that call did, whatever calls were
\* made in between: the same exception, or the same result with the same
\* route order, hop distances, total_distance_km and
\* estimated_time_minutes.
C20_SameArgumentsSameOutcome ==
    FirstCallRepeated =>
        /\ pc = first_call.pc
        /\ error = first_call.error
        /\ result = first_call.result

\* C20 witness: the first call's arguments are planned again into a route
\* of 3 stops after a call with other arguments
C20_Witness_RepeatedAfterOtherCall ==
    /\ FirstCallRepeated
    /\ first_call.between
    /\ ReturnedRoute
    /\ Len(result.route) = 3
    /\ result.total_distance_km > 0

-----------------------------------------------------------------------------
(* The call that steps and the call as a function *)

\* how the call in progress has ended
Outcome == [pc |-> pc, result |-> result, error |-> error]
Ended == pc \in {"done", "raised"}

\* every call ends as plan_route, taken as a function of its arguments,
\* says
StepsAgreeWithFunction ==
    Ended => Outcome = plan_route(tasks, start_location)

-----------------------------------------------------------------------------
(* Concurrent invocations *)

\* how an invocation with the given locals has ended
OutcomeOf(locals) ==
    [pc |-> locals.pc, result |-> locals.result, error |-> locals.error]

\* C21: under every interleaving of two concurrent invocations, each
\* invocation that has ended has ended exactly as it does when it runs
\* alone on its arguments; none has seen or changed the other's remaining
\* list, route or current location.
C21_ConcurrentCallsEndAsAlone ==
    /\ Ended => Outcome = plan_route(tasks, start_location)
    /\ (other # PyNone /\ other.locals.pc \in {"done", "raised"}) =>
           OutcomeOf(other.locals) =
               plan_route(other.locals.tasks, other.locals.start_location)

\* C21 witness: an invocation has returned a route of 3 stops while the
\* other, called with other arguments, is suspended in the middle of its
\* nearest-neighbour loop
C21_Witness_ReturnedWhileOtherInLoop ==
    /\ ReturnedRoute
    /\ Len(result.route) = 3
    /\ other # PyNone
    /\ other.locals.tasks # tasks
    /\ other.locals.pc = "loop"
    /\ Len(other.locals.optimized) >= 1
    /\ other.locals.remaining # <<>>

-----------------------------------------------------------------------------
(* The caller's arguments *)

\* the caller's task record with the id of the given record
CallersTask(task) == tasks[task.id.v]

\* every task record the call holds or has returned is the caller's, with
\* the caller's fields and values
HoldsCallersTasks ==
    /\ \A i \in 1..Len(location_tasks) :
           location_tasks[i] = CallersTask(location_tasks[i])
    /\ \A i \in 1..Len(task_points) :
           task_points[i].task = CallersTask(task_points[i].task)
    /\ \A i \in 1..Len(Placed) : Placed[i].task = CallersTask(Placed[i].task)
    /\ ReturnedRoute =>
           \A i \in 1..Len(result.route) :
               result.route[i].task = CallersTask(result.route[i].task)
    /\ (Returned /\ ~result.optimized) =>
           \A i \in 1..Len(result.tasks) :
               result.tasks[i] = CallersTask(result.tasks[i])

\* C22: no step of plan_route changes its arguments: the caller's task list
\* keeps its length, its order and every field and value of every task
\* record, up to and after the return, optimized or not, and the start
\* location is kept too.
C22_ArgumentsUnchanged ==
    [][/\ tasks' = tasks
       /\ start_location' = start_location
       /\ HoldsCallersTasks']_vars

\* C22 witness: a route of 3 stops returned from a start location, so that
\* 3 tasks were removed from the remaining list and given a distance
C22_Witness_ThreeStopsPlaced ==
    /\ ReturnedRoute
    /\ StartGiven
    /\ Len(tasks) = 3
    /\ Len(result.route) = 3

-----------------------------------------------------------------------------
(* Priority *)

Priorities == { PyStr("low"), PyStr("high") }

\* the task list with the i-th task's priority replaced by priority[i]
Reprioritised(task_list, priority) ==
    [i \in 1..Len(task_list) |->
        [task_list[i] EXCEPT !["priority"] = priority[i]]]

\* the figures of a result that planning decides
Planned(value) ==
    [order |-> TaskIds(value.route),
     hops |-> [i \in 1..Len(value.route) |-> Hop(value.route[i])],
     total_distance_km |-> value.total_distance_km,
     estimated_time_minutes |-> value.estimated_time_minutes]

\* C23: a call whose tasks differ from this call's only in their priority
\* values ends as this call does, with the same route order, hop
\* distances, total distance and estimated time, and each stop of either
\* call carries the priority its task came with.
C23_PriorityHasNoInfluence ==
    Ended =>
        \A priority \in [1..Len(tasks) -> Priorities] :
            LET twin_tasks == Reprioritised(tasks, priority)
                twin == plan_route(twin_tasks, start_location)
            IN  /\ twin.pc = pc
                /\ twin.error = error
                /\ Returned => twin.result.optimized = result.optimized
                /\ ReturnedRoute =>
                       /\ Planned(twin.result) = Planned(result)
                       /\ \A i \in 1..Len(result.route) :
                              /\ result.route[i].task.priority =
                                     CallersTask(result.route[i].task).priority
                              /\ twin.result.route[i].task.priority =
                                     priority[result.route[i].task.id.v]

\* C23 witness: a returned route of 3 stops that visits a low-priority task
\* before a high-priority one and is not in the order of the task list
C23_Witness_LowBeforeHigh ==
    /\ ReturnedRoute
    /\ Len(result.route) = 3
    /\ TaskIds(result.route) # <<1, 2, 3>>
    /\ \E i, j \in 1..3 :
           /\ i < j
           /\ result.route[i].task.priority = PyStr("low")
           /\ result.route[j].task.priority = PyStr("high")

-----------------------------------------------------------------------------
(* Haversine distance *)

GridSteps == 5             \* grid points per axis, less one
\* a grid over the area the tasks lie in, 0.005 degrees between its points
GridPoints ==
    { <<BaseLat + 50 * i, BaseLng + 50 * j>> : i, j \in 0..GridSteps }

\* the points the scan of the nearest-neighbour loop measures to
ScannedPoints == { remaining[i].coordinates : i \in 1..Len(remaining) }

\* C24: the haversine distance is symmetric: from the point the loop stands
\* at to every task it scans and to every grid point, the distance one way
\* equals the distance the other way.
C24_HaversineSymmetric ==
    pc = "loop" =>
        \A point \in ScannedPoints \cup GridPoints :
            _haversine_distance(current_location, point) =
                _haversine_distance(point, current_location)

\* C24 witness: the loop stands at one task's point and scans a task at
\* another latitude and longitude, some distance away
C24_Witness_ScanOfDistantTask ==
    /\ pc = "loop"
    /\ remaining # <<>>
    /\ remaining[1].coordinates[1] # current_location[1]
    /\ remaining[1].coordinates[2] # current_location[2]
    /\ _haversine_distance(current_location, remaining[1].coordinates) > KM

-----------------------------------------------------------------------------
(* Hops *)

\* the haversine distance between two points, rounded to 2 decimals
RoundedDistance(point1, point2) ==
    Round2(_haversine_distance(point1, point2))

\* every stop after the first is its rounded distance from the stop before
HopsBetweenConsecutiveStops(route) ==
    \A i \in 2..Len(route) :
        Hop(route[i]) =
            RoundedDistance(route[i - 1].coordinates, route[i].coordinates)

\* C25: in the route under construction and in every returned route, the
\* distance_from_previous_km of every stop after the first is the haversine
\* distance from the stop before it, rounded to 2 decimals; in the loop the
\* current location is the last placed stop's, and a placed stop is no
\* longer in the remaining list.
C25_HopIsDistanceFromPreviousStop ==
    /\ HopsBetweenConsecutiveStops(optimized)
    /\ ReturnedRoute => HopsBetweenConsecutiveStops(result.route)
    /\ (pc = "loop" /\ optimized # <<>>) =>
           /\ current_location = optimized[Len(optimized)].coordinates
           /\ \A i \in 1..Len(optimized), j \in 1..Len(remaining) :
                  optimized[i].task # remaining[j].task

\* C25 witness: a returned route of 3 stops whose second and third hops
\* are different and not 0
C25_Witness_TwoDifferentHops ==
    /\ ReturnedRoute
    /\ Len(result.route) = 3
    /\ Hop(result.route[2]) > 0
    /\ Hop(result.route[3]) > Hop(result.route[2])

\* C26 as stated: the first stop of every optimized route has
\* distance_from_previous_km = 0.0, with and without a start location.
C26_FirstStopAtDistanceZero ==
    ReturnedRoute => Hop(result.route[1]) = 0

\* C26, amended: the first stop of an optimized route has
\* distance_from_previous_km = 0.0 when no start location is given; when one
\* is given, the first stop is a stop nearest the start point and its
\* distance_from_previous_km is the haversine distance from the start point
\* to it, rounded to 2 decimals.
C26_FirstStopDistanceFromStart ==
    ReturnedRoute =>
        IF StartGiven
        THEN /\ Hop(result.route[1]) =
                    RoundedDistance(StartPoint, result.route[1].coordinates)
             /\ \A i \in 1..Len(result.route) :
                    _haversine_distance(StartPoint,
                                        result.route[1].coordinates)
                        <= _haversine_distance(StartPoint,
                                               result.route[i].coordinates)
        ELSE Hop(result.route[1]) = 0

\* C26 witness: a route of 2 stops returned for a start location that is
\* more than a kilometre from the first stop
C26_Witness_FirstStopAwayFromStart ==
    /\ ReturnedRoute
    /\ StartGiven
    /\ Len(result.route) = 2
    /\ Hop(result.route[1]) > KM

-----------------------------------------------------------------------------
(* The nearest-neighbour loop *)

IdsOf(points) == { points[i].task.id.v : i \in 1..Len(points) }

\* an iteration of the loop has run
Iterated == pc = "loop" /\ pc' = "loop" /\ optimized' # optimized

\* iterations run so far: the stops placed, less the seeded one
Iterations == IF StartGiven THEN Len(optimized) ELSE Len(optimized) - 1

\* C27: every iteration of the loop removes exactly one task from the
\* remaining list and appends exactly one stop to the route, leaving the
\* placed stops as they were; no task is both placed and remaining; for N
\* resolved tasks the loop ends, with the remaining list empty, after N
\* iterations with a start location and N - 1 without.
C27_LoopTerminates ==
    /\ [][Iterated =>
            /\ Len(remaining') = Len(remaining) - 1
            /\ Len(optimized') = Len(optimized) + 1
            /\ SubSeq(optimized', 1, Len(optimized)) = optimized
            /\ IdsOf(remaining') = IdsOf(remaining) \ IdsOf(optimized')]_vars
    /\ [](pc = "loop" =>
            /\ IdsOf(optimized) \cap IdsOf(remaining) = {}
            /\ Len(optimized) + Len(remaining) = Len(task_points))
    /\ (pc = "loop") ~>
           /\ Ended
           /\ remaining = <<>>
           /\ Iterations = IF StartGiven THEN Len(task_points)
                                         ELSE Len(task_points) - 1

\* C27 witness: the loop is left after 3 iterations from a start location
C27_Witness_ThreeIterations ==
    /\ Ended
    /\ StartGiven
    /\ Len(task_points) = 3
    /\ remaining = <<>>
    /\ Iterations = 3

-----------------------------------------------------------------------------
(* Tasks at identical coordinates *)

\* the route reached route[i], and from there on the stops up to the last
\* stay at route[i]'s coordinates, each at distance 0
StaysAt(route, i) ==
    \A j \in (i + 1)..Len(route) :
        /\ route[j].coordinates = route[i].coordinates
        /\ Hop(route[j]) = 0

\* C28: while a task at the coordinates of a placed stop is still remaining,
\* every stop placed after that stop is at the same coordinates with hop
\* distance 0.0; so in a returned route the stops at identical coordinates
\* are consecutive and no stop at other coordinates separates them.
C28_IdenticalCoordinatesBackToBack ==
    /\ \A i \in 1..Len(optimized) :
           (\E k \in 1..Len(remaining) :
                remaining[k].coordinates = optimized[i].coordinates)
               => StaysAt(optimized, i)
    /\ ReturnedRoute =>
           \A i, k \in 1..Len(result.route) :
               (i < k /\ result.route[i].coordinates =
                             result.route[k].coordinates)
                   => StaysAt(SubSeq(result.route, 1, k), i)

\* C28 witness: the first and the third task of the list are at the same
\* point, the second elsewhere, and the returned route visits the third
\* right after the first
C28_Witness_ThirdVisitedSecond ==
    /\ ReturnedRoute
    /\ TaskIds(result.route) = <<1, 3, 2>>
    /\ result.route[1].coordinates = result.route[2].coordinates
    /\ result.route[3].coordinates # result.route[1].coordinates
    /\ Hop(result.route[2]) = 0

-----------------------------------------------------------------------------

(* The HTTP handlers over the tasks table.  `db` holds the committed rows   *)
(* in the order of their creation; `awaiting` holds the handlers that are   *)
(* suspended at an await of the database, each with its locals; `response`  *)
(* holds the request that the last step answered, with the status code and  *)
(* the body or error detail.  A handler runs from one await to the next in  *)
(* one step: between two of its steps other handlers may take theirs.       *)

\* db/models.py TaskStatus and TaskPriority values
valid_statuses == {"pending", "in_progress", "completed", "cancelled"}
valid_priorities == {"critical", "high", "medium", "low"}

\* str.strip() and str.lower() on the strings the requests carry
strip(s) ==
    CASE s = " note " -> "note"
      [] s = "  " -> ""
      [] s = " a " -> "a"
      [] s = "high " -> "high"
      [] s = " t1 " -> "t1"
      [] OTHER -> s

lower(s) ==
    CASE s = "HIGH " -> "high "
      [] s = "Pending" -> "pending"
      [] OTHER -> s

\* content_type.startswith("audio/") on the content types of the uploads
startswith_audio(s) ==
    CASE s = "audio/wav" -> TRUE
      [] s = "text/plain" -> FALSE
      [] OTHER -> FALSE

\* datetime.utcnow(), and now() of the database: the n-th reading of the
\* time, which differs from every other reading
utcnow(n) == [t |-> "datetime", v |-> n]

(* db/repositories.py and the session: each operator is one statement      *)
(* between two awaits                                                       *)

HasRow(table, task_id) == \E i \in DOMAIN table : table[i].id = task_id

\* TaskRepository.get_by_id: the row, or None
get_by_id(table, task_id) ==
    IF HasRow(table, task_id)
    THEN table[CHOOSE i \in DOMAIN table : table[i].id = task_id]
    ELSE PyNone

\* TaskRepository.get_all(status=...): the rows of that status, the last
\* created first
get_all(table, status) ==
    LET Test(task) == task.status = status
        rows == SelectSeq(table, Test)
    IN  [i \in 1..Len(rows) |-> rows[Len(rows) + 1 - i]]

\* variant: a None value is written like any other
SetAttrsWithNone(task, kwargs) ==
    [key \in DOMAIN task |->
        IF key \in DOMAIN kwargs THEN kwargs[key] ELSE task[key]]

\* the loop of TaskRepository.update: a key is written when the row has the
\* attribute and the value is not None
SetAttrs(task, kwargs) ==
    [key \in DOMAIN task |->
        IF key \in DOMAIN kwargs /\ kwargs[key] # PyNone
        THEN kwargs[key] ELSE task[key]]

\* what the session writes at the commit: the attributes of the loaded
\* object whose value was changed, updated_at among them, which line 112
\* sets to the present time
Written(task, kwargs, now) ==
    LET after == [SetAttrs(task, kwargs) EXCEPT !.updated_at = now]
    IN  [key \in {k \in DOMAIN task : after[k] # task[k]} |-> after[key]]

\* db.commit() of an update: the UPDATE of the written columns; it raises
\* StaleDataError when the row is gone
CommitRaises(table, task_id) == ~HasRow(table, task_id)
Commit(table, task_id, written) ==
    [i \in DOMAIN table |->
        IF table[i].id = task_id
        THEN [key \in DOMAIN table[i] |->
                 IF key \in DOMAIN written THEN written[key] ELSE table[i][key]]
        ELSE table[i]]

\* the keyword arguments of TaskRepository.mark_complete, the time being
\* read at the call (line 135)
MarkCompleteData(now) ==
    [status |-> PyStr("completed"), completed_at |-> now]

\* db.delete(task); db.commit(): the row is removed if it is still there
CommitDelete(table, task_id) ==
    LET Test(task) == task.id # task_id
    IN  SelectSeq(table, Test)

\* db.add(task); db.commit() of TaskRepository.create: the row is inserted
\* with the time of the database as updated_at (models.py 80)
CommitCreate(table, task, now) ==
    Append(table, [task EXCEPT !.updated_at = now])

\* db.refresh(task) raises InvalidRequestError when the row is gone
RefreshRaises(table, task_id) == ~HasRow(table, task_id)

\* an HTTPException, or an exception no handler catches, as the client
\* sees it
HTTPException(request, status_code, detail) ==
    [request |-> request, status_code |-> status_code, detail |-> detail]

OK(request, body) ==
    [request |-> request, status_code |-> 200, body |-> body]

\* a repository function called without a handler: the value it returns to
\* its caller, or the exception it lets through
ReturnedValue(request, value) == [request |-> request, returned |-> value]
RaisedException(request, exception) == [request |-> request, raised |-> exception]

\* _task_to_schema: the fields are read in the order of the call; reading an
\* attribute the row does not have raises AttributeError.  The Task model of
\* db/models.py defines no reminder_time.
_task_to_schema(task) ==
    IF {"original_text", "suggested_time", "due_date", "reminder_time"}
           \subseteq DOMAIN task
    THEN [raised |-> FALSE,
          value |-> [id |-> task.id, title |-> task.title,
                     description |-> task.description,
                     priority |-> task.priority,
                     category |->
                         [type |-> Or(task.category_type, PyStr("personal")),
                          location |-> task.location,
                          estimated_duration_minutes |->
                              task.estimated_duration_minutes],
                     original_text |-> Or(task.original_text, task.title),
                     suggested_time |-> task.suggested_time,
                     due_date |-> task.due_date,
                     reminder_time |-> task.reminder_time,
                     status |-> Or(task.status, PyStr("pending")),
                     location_coordinates |-> task.location_coordinates]]
    ELSE [raised |-> TRUE, exception |-> "AttributeError"]

(* tasks.py: update_task *)

NoData == [key \in {} |-> PyNone]

\* lines 103-106, and 237-240 of delete_task
BlankId(request) == strip(request.task_id.s) = ""
StrippedId(request) == PyStr(strip(request.task_id.s))

\* lines 116-122
TitleError(request) ==
    request.title # PyNone /\ strip(request.title.s) = ""
TitleData(request) ==
    IF request.title = PyNone THEN NoData
    ELSE "title" :> PyStr(strip(request.title.s))

\* lines 124-131: an empty description is entered as None
DescriptionData(request) ==
    IF request.description = PyNone THEN NoData
    ELSE IF Truthy(request.description)
         THEN "description" :> PyStr(strip(request.description.s))
         ELSE "description" :> PyNone

\* lines 133-148
PriorityError(request) ==
    /\ request.priority # PyNone
    /\ strip(lower(request.priority.s)) \notin valid_priorities
PriorityData(request) ==
    IF request.priority = PyNone THEN NoData
    ELSE "priority" :> PyStr(strip(lower(request.priority.s)))

\* lines 150-165
StatusError(request) ==
    /\ request.status # PyNone
    /\ strip(lower(request.status.s)) \notin valid_statuses
StatusData(request) ==
    IF request.status = PyNone THEN NoData
    ELSE "status" :> PyStr(strip(lower(request.status.s)))

\* lines 167-187: the text is parsed as an ISO 8601 time, and
\* datetime.fromisoformat gives the time the text names
ReminderError(request) ==
    /\ request.reminder_time # PyNone
    /\ request.reminder_time # PyStr("2024-12-02T15:00:00Z")
ReminderData(request) ==
    IF request.reminder_time = PyNone THEN NoData
    ELSE "reminder_time" :>
             [t |-> "datetime", iso |-> request.reminder_time.s]

\* line 114 and the assignments that follow it
UpdateData(request) ==
    TitleData(request) @@ DescriptionData(request) @@ PriorityData(request)
        @@ StatusData(request) @@ ReminderData(request)

\* lines 116-191: the detail of the 400 the request is refused with, None
\* when it is not refused.  The texts of the requests are short of the 500
\* and 2000 character limits.
Refused(request) ==
    IF TitleError(request)
    THEN PyStr("Title cannot be empty or only whitespace")
    ELSE IF PriorityError(request)
    THEN FString("Invalid priority: '{}'. Must be one of: critical, high, medium, low",
                 request.priority.s)
    ELSE IF StatusError(request)
    THEN FString("Invalid status: '{}'. Must be one of: pending, in_progress, completed, cancelled",
                 request.status.s)
    ELSE IF ReminderError(request)
    THEN FString("Invalid reminder_time format. Use ISO 8601 format (e.g., '2024-12-02T15:00:00Z'). Error: {}",
                 "ValueError")
    ELSE IF UpdateData(request) = NoData
    THEN PyStr("No valid fields provided to update")
    ELSE PyNone

\* lines 203-208: an exception of the update, the HTTPException of line 198
\* among them, is answered as a database error
DatabaseError(request, exception) ==
    HTTPException(request, 500,
                  FString("Database error while updating task: {}", exception))

(* api/routes/route_planner.py: the plan-route endpoint *)

\* line 53: task and task.status == TaskStatus.PENDING
NamedTaskIsPending(task) == task # PyNone /\ task.status = PyStr("pending")

\* lines 54-62 and 75-83
TaskData(task) ==
    [id |-> task.id,
     title |-> task.title,
     location |-> task.location,
     location_coordinates |-> task.location_coordinates,
     estimated_duration_minutes |->
         Or(task.estimated_duration_minutes, PyNum(15)),
     priority |-> task.priority,
     category_type |-> task.category_type]

\* lines 52-62, one pass of the loop: an id without a row, or whose row is
\* not pending, adds nothing
WithNamedTask(tasks_data, table, task_id) ==
    LET task == get_by_id(table, task_id)
    IN  IF NamedTaskIsPending(task)
        THEN Append(tasks_data, TaskData(task))
        ELSE tasks_data

\* lines 73-74
Located(task, category_filter) ==
    /\ Truthy(Or(task.location, task.location_coordinates))
    /\ ~Truthy(category_filter) \/ task.category_type = category_filter

\* lines 65-83
PendingTasks(table, category_filter) ==
    LET Test(task) == Located(task, category_filter)
        all_tasks == SelectSeq(get_all(table, PyStr("pending")), Test)
    IN  [i \in 1..Len(all_tasks) |-> TaskData(all_tasks[i])]

\* lines 96-102
RequestStart(start) ==
    IF ~Truthy(start) THEN PyNone
    ELSE LET lat == Or(Get(start.d, "lat"), Get(start.d, "latitude"))
             lng == Or(Or(Get(start.d, "lng"), Get(start.d, "longitude")),
                       Get(start.d, "lon"))
         IN  IF Truthy(lat) /\ Truthy(lng)
             THEN PyTuple(float(lat), float(lng))
             ELSE PyNone

\* lines 110-121
ResponseRoute(route) ==
    [i \in 1..Len(route) |->
        [task_id |-> route[i].task.id,
         title |-> route[i].task.title,
         location |-> route[i].task.location,
         coordinates |-> route[i].coordinates,
         distance_from_previous_km |->
             GetOr(route[i], "distance_from_previous_km", 0),
         estimated_duration_minutes |->
             route[i].task.estimated_duration_minutes,
         priority |-> route[i].task.priority]]

\* lines 85-134: the answer, once the tasks are gathered; no await is left
PlanResponse(request, tasks_data) ==
    IF Len(tasks_data) < 2
    THEN OK(request,
            [optimized |-> FALSE,
             route |-> <<>>,
             total_distance_km |-> 0,
             estimated_time_minutes |-> 0,
             task_count |-> Len(tasks_data),
             message |->
                 PyStr("Need at least 2 tasks with locations to plan a route"),
             formatted_route |-> PyNone])
    ELSE LET outcome ==
                 plan_route(tasks_data, RequestStart(request.start_location))
             route_result == outcome.result
         IN  IF outcome.pc = "raised"
             THEN HTTPException(request, 500,
                      FString("Error planning route: {}", outcome.error))
             ELSE OK(request,
                     [optimized |-> GetOr(route_result, "optimized", FALSE),
                      route |->
                          ResponseRoute(GetOr(route_result, "route", <<>>)),
                      total_distance_km |->
                          GetOr(route_result, "total_distance_km", 0),
                      estimated_time_minutes |->
                          GetOr(route_result, "estimated_time_minutes", 0),
                      task_count |-> GetOr(route_result, "task_count", 0),
                      message |->
                          GetOr(route_result, "message",
                                PyStr("Route planned successfully")),
                      formatted_route |->
                          format_route_for_display(route_result)])
(* The requests and the table they are served from *)

\* a task as TaskRepository.create makes it (lines 41-57): pending, not
\* completed; the database gives updated_at when the row is inserted
Row(id, title, description, priority, category, location, coords, minutes) ==
    [id |-> PyStr(id), title |-> PyStr(title), description |-> description,
     original_text |-> PyNone, priority |-> PyStr(priority),
     category_type |-> PyStr(category), location |-> location,
     location_coordinates |-> coords, due_date |-> PyNone,
     suggested_time |-> PyNone, estimated_duration_minutes |-> minutes,
     status |-> PyStr("pending"), completed_at |-> PyNone,
     updated_at |-> PyNone]

\* the table before the requests.  Four tasks were created one after the
\* other: three with coordinates, of which one has no duration and one no
\* location text, and one with neither location nor coordinates.  A fifth
\* task was created and then completed (repositories.py 131-136, 108-112):
\* mark_complete read the time for completed_at and update read it again for
\* updated_at.
CreatedTasks ==
    << [Row("t1", "a", PyStr("old"), "high", "errand", PyStr("A"),
            Coords("lat", 377749, "lng", -1224194), PyNum(15))
           EXCEPT !.updated_at = utcnow(1)],
       [Row("t2", "b", PyNone, "low", "appointment", PyStr("B"),
            Coords("latitude", 377849, "longitude", -1224094), PyNone)
           EXCEPT !.updated_at = utcnow(2)],
       [Row("t3", "c", PyStr("old"), "medium", "errand", PyNone,
            Coords("lat", 378049, "lon", -1223894), PyNum(20))
           EXCEPT !.updated_at = utcnow(3)],
       [Row("t4", "n", PyNone, "low", "work", PyNone, PyNone, PyNum(15))
           EXCEPT !.updated_at = utcnow(4)],
       [Row("t0", "d", PyNone, "low", "errand", PyStr("D"),
            Coords("lat", 377949, "lng", -1223994), PyNum(5))
           EXCEPT !.status = PyStr("completed"),
                  !.completed_at = utcnow(5),
                  !.updated_at = utcnow(6)] >>

\* the readings of the time taken before the requests: one for each row,
\* and one more for the completion
FirstClock == Len(CreatedTasks) + 1

\* a request whose handler reads the time is received as long as fewer
\* readings than MaxClock have been taken; a handler that has been
\* received reads the time whenever it comes to it
MaxClock == 1
CanRead == clock < FirstClock + MaxClock

\* repositories.py 39-57: the task that TaskRepository.create makes of its
\* arguments, those not given at their defaults; the i-th task created gets
\* the id that uuid4 draws for it, an id no row has had
create(i, kwargs) ==
    ([id |-> PyStr(IF i = 1 THEN "t5" ELSE "t6")] @@ kwargs)
    @@ Row("", "", PyNone, "", "", PyNone, PyNone, PyNone)

\* the arguments of the create_task requests (tasks.py 33-41)
PostedTask ==
    [title |-> PyStr("s"), description |-> PyNone,
     priority |-> PyStr("medium"), category_type |-> PyStr("errand"),
     location |-> PyStr("Store"), due_date |-> PyNone,
     estimated_duration_minutes |-> PyNone]

\* the tasks of a response of the language model, as ai_service.py 644-713
\* makes them: an id of their own, a title of three characters or more, a
\* location of two or more, minutes from 1 to 480, no coordinates, and no
\* suggested time for a task of low priority nor, with little energy, for
\* one of medium priority
ResponseTasks ==
    << [id |-> PyStr("s1"), title |-> PyStr("milk"), description |-> PyNone,
        priority |-> PyStr("medium"),
        category |-> [type |-> PyStr("errand"), location |-> PyStr("Store"),
                      estimated_duration_minutes |-> PyNum(15)],
        original_text |-> PyStr("buy milk"), suggested_time |-> PyNone,
        due_date |-> PyNone, reminder_time |-> PyNone, status |-> PyNone,
        location_coordinates |-> PyNone],
       [id |-> PyStr("s2"), title |-> PyStr("mail"), description |-> PyNone,
        priority |-> PyStr("low"),
        category |-> [type |-> PyStr("work"), location |-> PyNone,
                      estimated_duration_minutes |-> PyNum(30)],
        original_text |-> PyStr("mail"), suggested_time |-> PyNone,
        due_date |-> PyNone, reminder_time |-> PyNone, status |-> PyNone,
        location_coordinates |-> PyNone] >>

\* process_text.py 143-153, process_voice.py 80-90: the arguments of
\* TaskRepository.create for a task of the response
task_data(task_schema) ==
    [title |-> task_schema.title, description |-> PyNone,
     original_text |-> task_schema.original_text,
     priority |-> task_schema.priority,
     category_type |-> task_schema.category.type,
     location |-> task_schema.category.location,
     location_coordinates |-> task_schema.location_coordinates,
     suggested_time |-> task_schema.suggested_time,
     estimated_duration_minutes |->
         task_schema.category.estimated_duration_minutes]

\* the clients; each waits for the answer before its next request
Clients == {"one", "other"}

\* the ids the task requests address: a task, the same id between blanks, an
\* id without a row and a blank id; complete_task also the completed task.  complete_task takes the id as it is,
\* update_task and delete_task strip it.
CompleteRequests ==
    { [handler |-> "complete_task", task_id |-> PyStr(id)] :
        id \in {"t1", " t1 ", "t9", "t0"} }

DeleteRequests ==
    { [handler |-> "delete_task", task_id |-> PyStr(id)] :
        id \in {"t1", "t9", "  "} }

Patch(title, description, priority, status, reminder_time) ==
    [title |-> title, description |-> description, priority |-> priority,
     status |-> status, reminder_time |-> reminder_time]

\* bodies of PATCH requests that pass the validation
Patches ==
    { Patch(PyNone, PyStr(""), PyNone, PyNone, PyNone),
      Patch(PyNone, PyStr(" note "), PyNone, PyNone, PyNone),
      Patch(PyNone, PyNone, PyNone, PyStr("Pending"), PyNone),
      Patch(PyStr(" a "), PyNone, PyStr("HIGH "), PyNone,
            PyStr("2024-12-02T15:00:00Z")) }

\* bodies that are refused: one for each test, and the empty body
RefusedPatches ==
    { Patch(PyStr("  "), PyNone, PyNone, PyNone, PyNone),
      Patch(PyNone, PyNone, PyStr("urgent"), PyNone, PyNone),
      Patch(PyNone, PyNone, PyNone, PyStr("done"), PyNone),
      Patch(PyNone, PyNone, PyNone, PyNone, PyStr("soon")),
      Patch(PyNone, PyNone, PyNone, PyNone, PyNone) }

UpdateRequests ==
    { [handler |-> "update_task", task_id |-> PyStr(id)] @@ patch :
        id \in {"t1"}, patch \in Patches \cup RefusedPatches }
    \cup
    { [handler |-> "update_task", task_id |-> PyStr(id)] @@ patch :
        id \in {" t1 ", "t9", "  "},
        patch \in {Patch(PyNone, PyStr(" note "), PyNone, PyNone, PyNone)} }

RoutePlanRequest(task_ids, category_filter, start) ==
    [handler |-> "plan_route", task_ids |-> task_ids,
     category_filter |-> category_filter, start_location |-> start]

\* all pending tasks, with and without a category; named tasks in two
\* orders, with the unknown id; a start under two spellings of the keys,
\* and one at latitude 0
PlanRequests ==
    { RoutePlanRequest(PyNone, PyNone, PyNone),
      RoutePlanRequest(PyList(<<>>), PyStr("errand"),
                       Coords("lat", 0, "lng", -1224000)),
      RoutePlanRequest(PyList(<<PyStr("t1"), PyStr("t2"), PyStr("t3")>>),
                       PyNone,
                       Coords("latitude", 378049, "longitude", -1223894)),
      RoutePlanRequest(PyList(<<PyStr("t9"), PyStr("t1")>>),
                       PyNone, Coords("lat", 377800, "lng", -1224000)) }

CreateRequests == { [handler |-> "create_task", task |-> PostedTask] }

\* a text and a blank text; a recording and an upload that is not audio
ProcessRequests ==
    { [handler |-> "process_text_input", text |-> PyStr("buy milk")],
      [handler |-> "process_text_input", text |-> PyStr("  ")],
      [handler |-> "process_voice_input", content_type |-> PyStr("audio/wav")],
      [handler |-> "process_voice_input",
       content_type |-> PyStr("text/plain")] }

\* the calls of TaskRepository.create_batch: a list of two tasks' data, and
\* the empty list
BatchRequests ==
    { [handler |-> "create_batch",
       tasks_data |-> <<task_data(ResponseTasks[1]),
                        task_data(ResponseTasks[2])>>],
      [handler |-> "create_batch", tasks_data |-> <<>>] }

InitApi ==
    /\ db = CreatedTasks
    /\ response = PyNone
    /\ awaiting = EmptyBag
    /\ clock = FirstClock
    /\ hash_seed = CHOOSE seed \in HashSeeds : seed < 0
    /\ tasks = <<>>
    /\ start_location = PyNone
    /\ pc = "serving"
    /\ location_tasks = <<>>
    /\ task_points = <<>>
    /\ idx = 1
    /\ current_location = <<0, 0>>
    /\ optimized = <<>>
    /\ remaining = <<>>
    /\ result = PyNone
    /\ error = ""
    /\ display = PyNone
    /\ first_call = PyNone
    /\ other = PyNone

\* the planner's variables are not those of the handlers
PlannerIdle ==
    UNCHANGED <<tasks, start_location, pc, location_tasks, task_points, idx,
                current_location, optimized, remaining, result, error,
                display, hash_seed, first_call, other>>

\* a client is free to send a request
CanReceive == BagCardinality(awaiting) < Cardinality(Clients)

\* the handlers of these names that are suspended at this await
Suspended(handlers, at) ==
    { frame \in BagToSet(awaiting) :
        frame.request.handler \in handlers /\ frame.at = at }

Frame(request, at, local) == [request |-> request, at |-> at, local |-> local]

\* the handler is suspended at its first await, goes from one await to the
\* next, or ends with the answer; `response` is the answer of the step
\* taken last, None when that step gave none
Suspend(frame) ==
    /\ awaiting' = awaiting (+) SetToBag({frame})
    /\ response' = PyNone
Resume(frame, next) ==
    /\ awaiting' = (awaiting (-) SetToBag({frame})) (+) SetToBag({next})
    /\ response' = PyNone
Answer(frame, answer) ==
    /\ awaiting' = awaiting (-) SetToBag({frame})
    /\ response' = answer
AnswerAtOnce(answer) ==
    /\ response' = answer
    /\ UNCHANGED awaiting

(* PATCH /tasks/{task_id} *)

\* tasks.py 101-191: the request is received, the row is read (line 109)
\* and the body is validated
UpdateLookup ==
    \E request \in UpdateRequests :
        /\ CanReceive
        /\ LET task == get_by_id(db, StrippedId(request))
           IN  IF BlankId(request)
               THEN AnswerAtOnce(HTTPException(request, 400,
                                     PyStr("Task ID cannot be empty")))
               ELSE IF task = PyNone
               THEN AnswerAtOnce(HTTPException(request, 404,
                                     FString("Task not found: {}",
                                             StrippedId(request).s)))
               ELSE IF Refused(request) # PyNone
               THEN AnswerAtOnce(HTTPException(request, 400,
                                               Refused(request)))
               ELSE /\ CanRead
                    /\ Suspend(Frame(request, "update", task))
        /\ UNCHANGED db
        /\ PlannerIdle
        /\ UNCHANGED clock

\* tasks.py 195 -> repositories.py 103-112: the row is read again; the
\* session returns the object it loaded at line 109, and its attributes are
\* set.  Without the row update returns None (tasks.py 196-198).
UpdateReload ==
    \E frame \in Suspended({"update_task"}, "update") :
        /\ IF HasRow(db, StrippedId(frame.request))
           THEN /\ clock' = clock + 1
                /\ Resume(frame,
                       Frame(frame.request, "commit",
                             [task_id |-> StrippedId(frame.request),
                              written |-> Written(frame.local,
                                              UpdateData(frame.request),
                                              utcnow(clock + 1))]))
           ELSE /\ UNCHANGED clock
                /\ Answer(frame,
                       DatabaseError(frame.request,
                           "500: Failed to update task. Update operation returned no result."))
        /\ UNCHANGED db
        /\ PlannerIdle

(* POST /tasks/{task_id}/complete *)

\* tasks.py 272 -> repositories.py 131-135, 103 -> 67: the request is
\* received and the time is read for completed_at; the handler is suspended
\* at the read of the row
CompleteReceive ==
    \E request \in CompleteRequests :
        /\ CanReceive
        /\ CanRead
        /\ clock' = clock + 1
        /\ Suspend(Frame(request, "update",
                         MarkCompleteData(utcnow(clock + 1))))
        /\ UNCHANGED db
        /\ PlannerIdle

\* repositories.py 103-112, tasks.py 273-274: the row is read; without it
\* the answer is 404, else its attributes are set and the time is read
\* again for updated_at
CompleteLookup ==
    \E frame \in Suspended({"complete_task"}, "update") :
        /\ LET task == get_by_id(db, frame.request.task_id)
           IN  IF task = PyNone
               THEN /\ UNCHANGED clock
                    /\ Answer(frame, HTTPException(frame.request, 404,
                                                   PyStr("Task not found")))
               ELSE /\ clock' = clock + 1
                    /\ Resume(frame,
                           Frame(frame.request, "commit",
                                 [task_id |-> frame.request.task_id,
                                  written |-> Written(task, frame.local,
                                                  utcnow(clock + 1))]))
        /\ UNCHANGED db
        /\ PlannerIdle

\* an exception of the repository leaves complete_task uncaught; update_task
\* answers it as a database error
Failed(request, exception) ==
    IF request.handler = "update_task"
    THEN DatabaseError(request, exception)
    ELSE HTTPException(request, 500, PyStr("Internal Server Error"))

\* repositories.py 113: db.commit() of TaskRepository.update
UpdateCommit ==
    \E frame \in Suspended({"update_task", "complete_task"}, "commit") :
        /\ IF CommitRaises(db, frame.local.task_id)
           THEN /\ Answer(frame, Failed(frame.request, "StaleDataError"))
                /\ UNCHANGED db
           ELSE /\ db' = Commit(db, frame.local.task_id, frame.local.written)
                /\ Resume(frame, Frame(frame.request, "refresh",
                                       frame.local.task_id))
        /\ PlannerIdle
        /\ UNCHANGED clock

\* repositories.py 114-115: db.refresh(task); then the handler converts the
\* row (tasks.py 201, 275) and answers
UpdateRefresh ==
    \E frame \in Suspended({"update_task", "complete_task"}, "refresh") :
        /\ IF RefreshRaises(db, frame.local)
           THEN Answer(frame, Failed(frame.request, "InvalidRequestError"))
           ELSE LET schema == _task_to_schema(get_by_id(db, frame.local))
                IN  IF schema.raised
                    THEN Answer(frame, Failed(frame.request, schema.exception))
                    ELSE Answer(frame, OK(frame.request, schema.value))
        /\ UNCHANGED db
        /\ PlannerIdle
        /\ UNCHANGED clock

(* DELETE /tasks/{task_id} *)

\* tasks.py 235-245
DeleteLookup ==
    \E request \in DeleteRequests :
        /\ CanReceive
        /\ IF BlankId(request)
           THEN AnswerAtOnce(HTTPException(request, 400,
                                           PyStr("Task ID cannot be empty")))
           ELSE IF ~HasRow(db, StrippedId(request))
           THEN AnswerAtOnce(HTTPException(request, 404,
                                 FString("Task not found: {}",
                                         StrippedId(request).s)))
           ELSE Suspend(Frame(request, "delete", StrippedId(request)))
        /\ UNCHANGED db
        /\ PlannerIdle
        /\ UNCHANGED clock

\* tasks.py 248-251 -> repositories.py 120-124: the row is read again and
\* marked for deletion; without the row delete returns False
DeleteReload ==
    \E frame \in Suspended({"delete_task"}, "delete") :
        /\ IF HasRow(db, frame.local)
           THEN Resume(frame, Frame(frame.request, "commit", frame.local))
           ELSE Answer(frame,
                       HTTPException(frame.request, 500,
                           PyStr("Failed to delete task. Deletion operation failed.")))
        /\ UNCHANGED db
        /\ PlannerIdle
        /\ UNCHANGED clock

\* repositories.py 125-126, tasks.py 253-254
DeleteCommit ==
    \E frame \in Suspended({"delete_task"}, "commit") :
        /\ db' = CommitDelete(db, frame.local)
        /\ Answer(frame, OK(frame.request,
                            [message |-> PyStr("Task deleted successfully"),
                             task_id |-> frame.local]))
        /\ PlannerIdle
        /\ UNCHANGED clock

(* POST /plan-route *)

\* route_planner.py 63-127: all pending tasks are read with one query, and
\* the planner is called and returns within the handler
PlanPending ==
    \E request \in PlanRequests :
        /\ CanReceive
        /\ ~Truthy(request.task_ids)
        /\ AnswerAtOnce(PlanResponse(request,
                            PendingTasks(db, request.category_filter)))
        /\ UNCHANGED db
        /\ PlannerIdle
        /\ UNCHANGED clock

\* line 51: the loop has a pass left after the i-th
MoreNamed(request, i) == i < Len(request.task_ids.items)

\* the handler suspended at the lookup of the i-th named task
PlanFrame(request, i, tasks_data) ==
    Frame(request, "lookup", [i |-> i, tasks_data |-> tasks_data])

\* route_planner.py 48-62, first pass of the loop
PlanNamed ==
    \E request \in PlanRequests :
        /\ CanReceive
        /\ Truthy(request.task_ids)
        /\ LET tasks_data ==
                   WithNamedTask(<<>>, db, request.task_ids.items[1])
           IN  IF MoreNamed(request, 1)
               THEN Suspend(PlanFrame(request, 2, tasks_data))
               ELSE AnswerAtOnce(PlanResponse(request, tasks_data))
        /\ UNCHANGED db
        /\ PlannerIdle
        /\ UNCHANGED clock

\* route_planner.py 51-62, a later pass of the loop, and lines 85-127
\* after the last
PlanNext ==
    \E frame \in Suspended({"plan_route"}, "lookup") :
        /\ LET i == frame.local.i
               tasks_data ==
                   WithNamedTask(frame.local.tasks_data, db,
                                 frame.request.task_ids.items[i])
           IN  IF MoreNamed(frame.request, i)
               THEN Resume(frame, PlanFrame(frame.request, i + 1, tasks_data))
               ELSE Answer(frame, PlanResponse(frame.request, tasks_data))
        /\ UNCHANGED db
        /\ PlannerIdle
        /\ UNCHANGED clock

(* POST /tasks, /process-text-input, /process-voice-input *)

\* tasks.py 32-42 -> repositories.py 39-60: the row is added and committed
CreateCommit ==
    \E request \in CreateRequests :
        /\ CanReceive
        /\ ~HasRow(db, create(1, request.task).id)
        /\ CanRead
        /\ clock' = clock + 1
        /\ db' = CommitCreate(db, create(1, request.task), utcnow(clock + 1))
        /\ Suspend(Frame(request, "created", create(1, request.task).id))
        /\ PlannerIdle

\* repositories.py 61-62, tasks.py 45-48
CreateRefresh ==
    \E frame \in Suspended({"create_task"}, "created") :
        /\ LET Error(exception) ==
                   HTTPException(frame.request, 500,
                       FString("Error creating task: {}", exception))
           IN  IF RefreshRaises(db, frame.local)
               THEN Answer(frame, Error("InvalidRequestError"))
               ELSE LET schema == _task_to_schema(get_by_id(db, frame.local))
                    IN  IF schema.raised
                        THEN Answer(frame, Error(schema.exception))
                        ELSE Answer(frame, OK(frame.request, schema.value))
        /\ UNCHANGED db
        /\ PlannerIdle
        /\ UNCHANGED clock

\* process_text.py 53-60, process_voice.py 41-45: the detail of the 400 the
\* request is refused with, None when it is not refused
Rejected(request) ==
    IF request.handler = "process_text_input"
    THEN IF strip(request.text.s) = ""
         THEN PyStr("Text input cannot be empty or only whitespace.")
         ELSE PyNone
    ELSE IF ~Truthy(request.content_type)
            \/ ~startswith_audio(request.content_type.s)
         THEN PyStr("Invalid file type. Please upload an audio file.")
         ELSE PyNone

\* process_text.py 53-73, process_voice.py 41-48: the request is received
\* and, if it is not refused, the handler is suspended at the awaits that
\* do not write the tasks table: the upload is read, the context is built,
\* the language model is asked, the emotional state and the conversation
\* are saved (process_text.py 73-132, process_voice.py 48-71)
ProcessReceive ==
    \E request \in ProcessRequests :
        /\ CanReceive
        /\ IF Rejected(request) # PyNone
           THEN AnswerAtOnce(HTTPException(request, 400, Rejected(request)))
           ELSE /\ CanRead
                /\ Suspend(Frame(request, "asked", PyNone))
        /\ UNCHANGED db
        /\ PlannerIdle
        /\ UNCHANGED clock

\* process_text.py 85, 135-163, process_voice.py 52, 75-100: the language
\* model has answered, with one task or none for a text and two or none for
\* a recording, and the first task is added and committed (repositories.py
\* 39-60); without tasks the response is returned (process_text.py 172,
\* process_voice.py 109)
ProcessCommit ==
    \E frame \in Suspended({"process_text_input", "process_voice_input"},
                           "asked") :
        \E n \in {0, IF frame.request.handler = "process_text_input"
                     THEN 1 ELSE Len(ResponseTasks)} :
            /\ LET extracted == SubSeq(ResponseTasks, 1, n)
                   task == create(1, task_data(extracted[1]))
               IN  IF n = 0
                   THEN /\ Answer(frame, OK(frame.request, [tasks |-> extracted]))
                        /\ UNCHANGED <<db, clock>>
                   ELSE /\ ~HasRow(db, task.id)
                        /\ clock' = clock + 1
                        /\ db' = CommitCreate(db, task, utcnow(clock + 1))
                        /\ Resume(frame,
                                  Frame(frame.request, "created",
                                        [i |-> 1, tasks |-> extracted]))
            /\ PlannerIdle

\* repositories.py 61-62: db.refresh(task) of the task added last; an
\* exception ends the loop, is logged (process_text.py 167-169,
\* process_voice.py 105-107) and the response is returned (process_text.py
\* 172, process_voice.py 109), as it is after the last task
ProcessRefresh ==
    \E frame \in Suspended({"process_text_input", "process_voice_input"},
                           "created") :
        /\ LET i == frame.local.i
               extracted == frame.local.tasks
               task == create(i, task_data(extracted[i]))
           IN  IF RefreshRaises(db, task.id) \/ i = Len(extracted)
               THEN Answer(frame, OK(frame.request, [tasks |-> extracted]))
               ELSE Resume(frame,
                           Frame(frame.request, "create",
                                 [i |-> i + 1, tasks |-> extracted]))
        /\ UNCHANGED db
        /\ PlannerIdle
        /\ UNCHANGED clock

\* process_text.py 139-163, process_voice.py 77-100, a later pass of the
\* loop: the next task is added and committed
ProcessNext ==
    \E frame \in Suspended({"process_text_input", "process_voice_input"},
                           "create") :
        /\ LET i == frame.local.i
               extracted == frame.local.tasks
               task == create(i, task_data(extracted[i]))
           IN  /\ ~HasRow(db, task.id)
               /\ clock' = clock + 1
               /\ db' = CommitCreate(db, task, utcnow(clock + 1))
               /\ Resume(frame,
                         Frame(frame.request, "created",
                               [i |-> i, tasks |-> extracted]))
        /\ PlannerIdle

(* TaskRepository.create_batch, which no handler calls *)

\* repositories.py 139-143 -> 39-60: the call; the first task is added and
\* committed.  An empty list is returned as it is (line 145).
BatchCommit ==
    \E request \in BatchRequests :
        /\ CanReceive
        /\ IF request.tasks_data = <<>>
           THEN /\ AnswerAtOnce(ReturnedValue(request, <<>>))
                /\ UNCHANGED <<db, clock>>
           ELSE /\ ~HasRow(db, create(1, request.tasks_data[1]).id)
                /\ CanRead
                /\ clock' = clock + 1
                /\ db' = CommitCreate(db, create(1, request.tasks_data[1]),
                                      utcnow(clock + 1))
                /\ Suspend(Frame(request, "created",
                                 [i |-> 1, tasks |-> <<>>]))
        /\ PlannerIdle

\* repositories.py 61-62, 144-145: db.refresh(task) of the task added last,
\* whose exception nothing catches; the task is appended, and after the
\* last the list is returned
BatchRefresh ==
    \E frame \in Suspended({"create_batch"}, "created") :
        /\ LET i == frame.local.i
               task_id == create(i, frame.request.tasks_data[i]).id
               created == Append(frame.local.tasks, get_by_id(db, task_id))
           IN  IF RefreshRaises(db, task_id)
               THEN Answer(frame, RaisedException(frame.request,
                                              "InvalidRequestError"))
               ELSE IF i = Len(frame.request.tasks_data)
               THEN Answer(frame, ReturnedValue(frame.request, created))
               ELSE Resume(frame,
                           Frame(frame.request, "create",
                                 [i |-> i + 1, tasks |-> created]))
        /\ UNCHANGED db
        /\ PlannerIdle
        /\ UNCHANGED clock

\* repositories.py 142-143 -> 39-60, a later pass of the loop: the next
\* task is added and committed
BatchNext ==
    \E frame \in Suspended({"create_batch"}, "create") :
        /\ LET task == create(frame.local.i,
                              frame.request.tasks_data[frame.local.i])
           IN  /\ ~HasRow(db, task.id)
               /\ clock' = clock + 1
               /\ db' = CommitCreate(db, task, utcnow(clock + 1))
               /\ Resume(frame, Frame(frame.request, "created", frame.local))
        /\ PlannerIdle

NextApi ==
    \/ UpdateLookup
    \/ UpdateReload
    \/ CompleteReceive
    \/ CompleteLookup
    \/ UpdateCommit
    \/ UpdateRefresh
    \/ DeleteLookup
    \/ DeleteReload
    \/ DeleteCommit
    \/ PlanPending
    \/ PlanNamed
    \/ PlanNext
    \/ CreateCommit
    \/ CreateRefresh
    \/ ProcessReceive
    \/ ProcessCommit
    \/ ProcessRefresh
    \/ ProcessNext
    \/ BatchCommit
    \/ BatchRefresh
    \/ BatchNext

SpecApi == InitApi /\ [][NextApi]_vars
-----------------------------------------------------------------------------
(* The endpoints *)

\* the last step answered a plan-route request: `db` is the table at the
\* time of the response
PlanServed == response # PyNone /\ response.request.handler = "plan_route"

\* the task ids of the stops in the response
RoutedIds ==
    IF response.status_code = 200
    THEN { response.body.route[i].task_id :
               i \in 1..Len(response.body.route) }
    ELSE {}

PendingIds ==
    { db[i].id : i \in { j \in DOMAIN db : db[j].status = PyStr("pending") } }
RowIds == { db[i].id : i \in DOMAIN db }
NamedIds ==
    IF Truthy(response.request.task_ids)
    THEN { response.request.task_ids.items[i] :
               i \in 1..Len(response.request.task_ids.items) }
    ELSE {}

\* C29: every stop of a plan-route response is a task whose status is
\* pending in the table at the time of the response, whether the request
\* names task ids or selects all tasks: a task marked completed by
\* complete_task is in no later response until its status is pending again.
\* A request naming an id without a row is answered with 200 and the id is
\* in no stop.
C29_OnlyPendingTasksRouted ==
    PlanServed =>
        /\ RoutedIds \subseteq PendingIds
        /\ response.status_code = 200
        /\ Truthy(response.request.task_ids) =>
               RoutedIds \subseteq NamedIds

\* the part that holds: a request that selects all tasks reads them with one
\* query and is answered in the same step, from pending tasks only
AllPendingBranchRoutesPending ==
    (PlanServed /\ ~Truthy(response.request.task_ids)) =>
        RoutedIds \subseteq PendingIds

\* the part that holds: plan-route requests are answered with 200 and an id
\* that was not named is in no stop, nor is the unknown id
UnknownIdsSkipped ==
    PlanServed =>
        /\ response.status_code = 200
        /\ PyStr("t9") \notin RoutedIds
        /\ Truthy(response.request.task_ids) => RoutedIds \subseteq NamedIds

\* the part that holds: when no row was written while the request was
\* served, here because the completion was committed and answered before
\* the request came, the completed task is left out
CompletedTaskLeftOut ==
    /\ PlanServed
    /\ get_by_id(db, PyStr("t1")) # PyNone
    /\ get_by_id(db, PyStr("t1")).status = PyStr("completed")
    /\ get_by_id(db, PyStr("t1")).completed_at # PyNone
    /\ response.request.task_ids.t = "list"
    /\ Len(response.request.task_ids.items) = 3
    /\ response.body.optimized
    /\ RoutedIds = {PyStr("t2"), PyStr("t3")}

\* what the code does: the response routes task t1, which complete_task has
\* marked completed while the request was reading the other named tasks
CompletedTaskRouted ==
    /\ PlanServed
    /\ get_by_id(db, PyStr("t1")) # PyNone
    /\ get_by_id(db, PyStr("t1")).status = PyStr("completed")
    /\ PyStr("t1") \in RoutedIds

\* a row deleted while the request was served is routed as well
DeletedTaskRouted ==
    /\ PlanServed
    /\ PyStr("t1") \in RoutedIds
    /\ PyStr("t1") \notin RowIds

\* the last step answered a PATCH with an empty-string description, after
\* the commit and the refresh of the row
EmptyDescriptionPatched ==
    /\ response # PyNone
    /\ response.request.handler = "update_task"
    /\ response.request.description = PyStr("")
    /\ response.status_code = 500
    /\ response.detail.n = "AttributeError"

\* the handler's part: the update data holds None under "description"
EmptyDescriptionEnteredAsNone ==
    EmptyDescriptionPatched =>
        /\ "description" \in DOMAIN UpdateData(response.request)
        /\ UpdateData(response.request)["description"] = PyNone

\* C30: after update_task was called on an existing task with an
\* empty-string description, the update data held None for the description
\* and the description stored for the task is None.
C30_EmptyDescriptionClears ==
    EmptyDescriptionPatched =>
        /\ UpdateData(response.request)["description"] = PyNone
        /\ get_by_id(db, StrippedId(response.request)).description = PyNone

\* the commit of such a call alone, with no other call between its read and
\* its commit: the row still has the description it was created with, and
\* the commit leaves it None
EmptyDescriptionCommitClears ==
    [][\A frame \in Suspended({"update_task"}, "commit") :
          ( /\ frame.request.description = PyStr("")
            /\ HasRow(db, frame.local.task_id)
            /\ get_by_id(db, frame.local.task_id).description = PyStr("old")
            /\ db' = Commit(db, frame.local.task_id, frame.local.written)
            /\ BagToSet(awaiting') \ BagToSet(awaiting) =
                   {Frame(frame.request, "refresh", frame.local.task_id)} )
          => get_by_id(db', frame.local.task_id).description = PyNone]_vars

\* what the code does instead: the stored description is the one the task
\* had before the call
EmptyDescriptionKeepsStored ==
    /\ EmptyDescriptionPatched
    /\ awaiting = EmptyBag
    /\ get_by_id(db, StrippedId(response.request)).description = PyStr("old")

\* an update whose row was deleted after the handler had found it is
\* answered as a database error, and the row is gone
UpdateOfDeletedRow ==
    /\ response # PyNone
    /\ response.request.handler = "update_task"
    /\ response.status_code = 500
    /\ response.detail.n =
           "500: Failed to update task. Update operation returned no result."
    /\ PyStr("t1") \notin RowIds

\* repositories.py 108-112, 131-136: every completion writes completed_at
\* and updated_at, each with the time it has read, also on a completed task
CompletionWritesTimes ==
    \A frame \in BagToSet(awaiting) :
        frame.request.handler = "complete_task" /\ frame.at = "commit"
            => {"completed_at", "updated_at"} \subseteq
                   DOMAIN frame.local.written

\* the completed task has been completed once more: only the two times are
\* written, and the row carries the new ones
CompletedAgain ==
    /\ response # PyNone
    /\ response.request.handler = "complete_task"
    /\ response.request.task_id = PyStr("t0")
    /\ get_by_id(db, PyStr("t0")).completed_at = utcnow(FirstClock + 1)
    /\ get_by_id(db, PyStr("t0")).updated_at = utcnow(FirstClock + 2)
    /\ get_by_id(db, PyStr("t0")).status = PyStr("completed")

\* process_text.py 139-163: a task saved from a text carries the text it
\* was extracted from
ExtractedTaskSaved ==
    /\ HasRow(db, PyStr("t5"))
    /\ get_by_id(db, PyStr("t5")).original_text = PyStr("buy milk")

\* a completion can be received while a text is with the language model
CompletionDuringExtraction ==
    \E asked, second \in BagToSet(awaiting) :
        /\ asked.request.handler = "process_text_input"
        /\ asked.at = "asked"
        /\ second.request.handler = "complete_task"

\* a completion whose two readings of the time are not consecutive: another
\* handler has read the time between them
CompletionAroundOtherReading ==
    \E i \in DOMAIN db :
        /\ db[i].id = PyStr("t1")
        /\ db[i].completed_at # PyNone
        /\ db[i].updated_at.v > db[i].completed_at.v + 1

\* a completion answered 404 although the row was there when the request
\* was received: the row was deleted before the completion read it
CompletionOfDeletedRow ==
    /\ response # PyNone
    /\ response.request.handler = "complete_task"
    /\ response.request.task_id = PyStr("t1")
    /\ "status_code" \in DOMAIN response
    /\ response.status_code = 404

\* process_text.py 172: the tasks of the response keep the ids the language
\* model's service gave them, which are not the ids of the rows
ResponseKeepsOwnIds ==
    /\ response # PyNone
    /\ response.request.handler = "process_text_input"
    /\ "body" \in DOMAIN response
    /\ Len(response.body.tasks) = 1
    /\ HasRow(db, PyStr("t5"))
    /\ ~HasRow(db, response.body.tasks[1].id)

====
